---- MODULE Spec2Model ----
(***************************************************************************)
(* Model of the NCAA Four Factors ingestion pipeline                       *)
(* (scripts/fetch-data.ts) and of the calculations library.                *)
(*                                                                         *)
(* JavaScript numbers are modelled as exact rationals [num, den]; a zero   *)
(* denominator stands for the non-finite results of a division by zero     *)
(* (0/0 is NaN, n/0 with n > 0 is Infinity).                               *)
(***************************************************************************)
EXTENDS Integers, Sequences, FiniteSets, TLC

VARIABLES
    \* ---- calculateFourFactors applied to one input
    stats,          \* the BoxScoreStats argument
    opponentDreb,   \* the opponentDreb argument
    factors,        \* the FourFactors returned
    calcDone,       \* has calculateFourFactors returned
    libFactors,     \* what the library's calculateFourFactors returned, once it has
    \* ---- fetchGameDetails applied to one game summary
    response,       \* what fetchWithRetry gave for the summary request
    teamLookup,     \* the Map from team id to Team built from the roster
    game,           \* the Game returned, or Null
    gameDone,       \* has fetchGameDetails returned
    \* ---- calculateStandings applied to one roster and one list of games
    rosterArg,      \* the teams argument
    gamesArg,       \* the games argument
    standingsOut,   \* the TeamStandings list returned
    standingsDone,  \* has calculateStandings returned
    standingsAgain, \* the lists that further applications to the same arguments returned
    \* ---- fetchAllTeams applied to the team lists of the conferences
    teamLists,      \* what fetchConferenceTeams returns, conference by conference
    rosterOut,      \* the roster returned
    rosterDone,     \* has fetchAllTeams returned
    \* ---- one invocation of the script: main
    argv,           \* process.argv.slice(2)
    season,         \* the season parseArgs returned
    pc,             \* where main is
    gender,         \* the gender fetchGenderData is running for
    dirsMade,       \* have the two output directories been created
    confResponse,   \* what the conference-list request of this gender gave
    conferences,    \* the conference ids fetchAllConferences returned
    ci,             \* index of the conference fetchAllTeams is at
    entries,        \* the standings entries (with a team) of that conference
    ei,             \* index of the entry fetchConferenceTeams is at
    confTeams,      \* the teams fetchConferenceTeams has collected
    allTeams,       \* allTeams, then the roster (teams) of fetchGenderData
    ti,             \* index of the team whose schedule is fetched next
    gameIds,        \* the Set of completed game ids, in insertion order
    gi,             \* index of the game id fetched next
    attempt,        \* the attempt fetchWithRetry is at
    games,          \* the Games collected
    standings,      \* the standings calculated
    files,          \* the three files of each gender's directory
    lastRequest,    \* the endpoint of the last outbound request, "none" before the first
    waited          \* the delay(ms) calls, in order, since that request returned or failed

calcVars == <<stats, opponentDreb, factors, calcDone, libFactors>>

gameVars == <<response, teamLookup, game, gameDone>>

standingsVars == <<rosterArg, gamesArg, standingsOut, standingsDone, standingsAgain>>

rosterVars == <<teamLists, rosterOut, rosterDone>>

runVars == <<argv, season, pc, gender, dirsMade, confResponse, conferences, ci, entries, ei, confTeams,
             allTeams, ti, gameIds, gi, attempt, games, standings, files, lastRequest, waited>>

vars == <<stats, opponentDreb, factors, calcDone, libFactors, response, teamLookup, game, gameDone,
          rosterArg, gamesArg, standingsOut, standingsDone, standingsAgain,
          teamLists, rosterOut, rosterDone,
          argv, season, pc, gender, dirsMade, confResponse, conferences, ci, entries, ei, confTeams,
          allTeams, ti, gameIds, gi, attempt, games, standings, files, lastRequest, waited>>

----------------------------------------------------------------------------
(* Bounds of the model *)

\* largest box-score count drawn for the calculator's inputs
MaxCount == 2

\* most entries of a teamBox.statistics list drawn for the parser
MaxStats == 3

\* most games of a list given to calculateStandings
MaxGames == 2

\* the conferences of a conference list
MaxConferences == 2

----------------------------------------------------------------------------
(* JavaScript numbers as rationals *)

RECURSIVE GCD(_, _)
GCD(a, b) == IF b = 0 THEN a ELSE GCD(b, a % b)

Abs(n) == IF n < 0 THEN 0 - n ELSE n

\* canonical form: lowest terms over a positive denominator; NaN is 0/0 and
\* +Infinity, -Infinity are 1/0, -1/0
Reduced(num, den, g) == [num |-> num \div g, den |-> den \div g]

Norm(r) ==
    IF r.den = 0
    THEN [num |-> IF r.num = 0 THEN 0 ELSE IF r.num > 0 THEN 1 ELSE 0 - 1, den |-> 0]
    ELSE Reduced(IF r.den < 0 THEN 0 - r.num ELSE r.num, Abs(r.den),
                 GCD(Abs(r.num), Abs(r.den)))

Rat(n) == [num |-> n, den |-> 1]

Zero == Rat(0)

RAdd(a, b) == Norm([num |-> a.num * b.den + b.num * a.den, den |-> a.den * b.den])

RMul(a, b) == Norm([num |-> a.num * b.num, den |-> a.den * b.den])

\* a / b; b = 0 gives NaN or an infinity, never an error
RDiv(a, b) == Norm([num |-> a.num * b.den, den |-> a.den * b.num])

IsNaN(r) == r.den = 0 /\ r.num = 0

IsFinite(r) == r.den # 0

\* x === 0
IsZero(r) == r.den # 0 /\ r.num = 0

NaN == [num |-> 0, den |-> 0]

\* a > b; false when either side is NaN
RGt(a, b) ==
    /\ ~IsNaN(a) /\ ~IsNaN(b)
    /\ IF a.den = 0 /\ b.den = 0 THEN a.num > b.num
       ELSE IF a.den = 0 THEN a.num > 0
       ELSE IF b.den = 0 THEN b.num < 0
       ELSE a.num * b.den > b.num * a.den

Half == [num |-> 1, den |-> 2]

FtaWeight == [num |-> 44, den |-> 100]

Hundred == Rat(100)

----------------------------------------------------------------------------
(* The Four-Factors calculator of the ingestion script *)

\* the inputs drawn for the calculator; fg3a and dreb, which the calculator
\* never reads, take the two extreme values only
BoxScoreStats ==
    [fgm : 0..MaxCount, fga : 0..MaxCount, fg3m : 0..MaxCount, fg3a : {0, MaxCount},
     ftm : 0..MaxCount, fta : 0..MaxCount, oreb : 0..MaxCount, dreb : {0, MaxCount},
     turnovers : 0..MaxCount]

ZeroStats ==
    [fgm |-> 0, fga |-> 0, fg3m |-> 0, fg3a |-> 0, ftm |-> 0, fta |-> 0,
     oreb |-> 0, dreb |-> 0, turnovers |-> 0]

ZeroFactors == [efg |-> Zero, tov |-> Zero, orb |-> Zero, ftr |-> Zero]

\* (n / d) * 100
pct(n, d) == RMul(RDiv(n, d), Hundred)

possessionsOf(s) ==
    RAdd(RAdd(Rat(s.fga), RMul(FtaWeight, Rat(s.fta))), Rat(s.turnovers))

tovOf(turnovers, possessions) ==
    IF IsZero(possessions) THEN Zero ELSE pct(Rat(turnovers), possessions)

orbOf(oreb, orbTotal) ==
    IF orbTotal = 0 THEN Zero ELSE pct(Rat(oreb), Rat(orbTotal))

\* the calculator with the fga guard of ftr left out
calculateFourFactorsUnguardedFtr(s, oppDreb) ==
    [efg |-> IF s.fga = 0 THEN Zero
             ELSE pct(RAdd(Rat(s.fgm), RMul(Half, Rat(s.fg3m))), Rat(s.fga)),
     tov |-> tovOf(s.turnovers, possessionsOf(s)),
     orb |-> orbOf(s.oreb, s.oreb + oppDreb),
     ftr |-> pct(Rat(s.ftm), Rat(s.fga))]

\* the calculator with the turnovers left out of the possessions
calculateFourFactorsShotPossessions(s, oppDreb) ==
    [efg |-> IF s.fga = 0 THEN Zero
             ELSE pct(RAdd(Rat(s.fgm), RMul(Half, Rat(s.fg3m))), Rat(s.fga)),
     tov |-> tovOf(s.turnovers, RAdd(Rat(s.fga), RMul(FtaWeight, Rat(s.fta)))),
     orb |-> orbOf(s.oreb, s.oreb + oppDreb),
     ftr |-> IF s.fga = 0 THEN Zero ELSE pct(Rat(s.ftm), Rat(s.fga))]

calculateFourFactors(s, oppDreb) ==
    [efg |-> IF s.fga = 0 THEN Zero
             ELSE pct(RAdd(Rat(s.fgm), RMul(Half, Rat(s.fg3m))), Rat(s.fga)),
     tov |-> tovOf(s.turnovers, possessionsOf(s)),
     orb |-> orbOf(s.oreb, s.oreb + oppDreb),
     ftr |-> IF s.fga = 0 THEN Zero ELSE pct(Rat(s.ftm), Rat(s.fga))]

----------------------------------------------------------------------------
(* The calculations library *)

\* eFG% = (FGM + 0.5 * 3PM) / FGA
calculateEfg(s) ==
    IF s.fga = 0 THEN Zero
    ELSE RMul(RDiv(RAdd(Rat(s.fgm), RMul(Half, Rat(s.fg3m))), Rat(s.fga)), Hundred)

\* the possessions of calculateTov
libPossessions(s) ==
    RAdd(RAdd(Rat(s.fga), RMul(FtaWeight, Rat(s.fta))), Rat(s.turnovers))

calculateTovOf(turnovers, possessions) ==
    IF IsZero(possessions) THEN Zero
    ELSE RMul(RDiv(Rat(turnovers), possessions), Hundred)

\* TOV% = TOV / (FGA + 0.44 * FTA + TOV)
calculateTov(s) == calculateTovOf(s.turnovers, libPossessions(s))

\* calculateOrb without the test of the total
calculateOrbUnguarded(ownOreb, oppDreb) ==
    RMul(RDiv(Rat(ownOreb), Rat(ownOreb + oppDreb)), Hundred)

\* ORB% = ORB / (ORB + Opponent DRB)
calculateOrb(ownOreb, oppDreb) ==
    IF ownOreb + oppDreb = 0 THEN Zero
    ELSE RMul(RDiv(Rat(ownOreb), Rat(ownOreb + oppDreb)), Hundred)

\* FTR = FTM / FGA
calculateFtr(s) ==
    IF s.fga = 0 THEN Zero ELSE RMul(RDiv(Rat(s.ftm), Rat(s.fga)), Hundred)

\* the library's calculateFourFactors
libCalculateFourFactors(s, opponentDrebArg) ==
    [efg |-> calculateEfg(s),
     tov |-> calculateTov(s),
     orb |-> calculateOrb(s.oreb, opponentDrebArg),
     ftr |-> calculateFtr(s)]

----------------------------------------------------------------------------
(* Strings of the upstream payload, as sequences of one-character strings *)

Digits == {"0", "1", "2", "3", "4", "5", "6", "7", "8", "9"}

DigitValue(c) ==
    CASE c = "0" -> 0 [] c = "1" -> 1 [] c = "2" -> 2 [] c = "3" -> 3 [] c = "4" -> 4
      [] c = "5" -> 5 [] c = "6" -> 6 [] c = "7" -> 7 [] c = "8" -> 8 [] c = "9" -> 9

RECURSIVE StripLeadingSpaces(_)
StripLeadingSpaces(s) ==
    IF s # <<>> /\ Head(s) = " " THEN StripLeadingSpaces(Tail(s)) ELSE s

RECURSIVE LeadingDigits(_)
LeadingDigits(s) ==
    IF s # <<>> /\ Head(s) \in Digits THEN <<Head(s)>> \o LeadingDigits(Tail(s)) ELSE <<>>

RECURSIVE DigitsValue(_, _)
DigitsValue(ds, acc) ==
    IF ds = <<>> THEN acc ELSE DigitsValue(Tail(ds), 10 * acc + DigitValue(Head(ds)))

\* the number of a sign and a run of digits; NaN when there is no digit
signedDigits(neg, ds) ==
    IF ds = <<>> THEN [nan |-> TRUE, val |-> 0]
    ELSE [nan |-> FALSE, val |-> IF neg THEN 0 - DigitsValue(ds, 0) ELSE DigitsValue(ds, 0)]

\* parseInt after the leading white space
parseIntTrimmed(t) ==
    IF t # <<>> /\ Head(t) \in {"-", "+"}
    THEN signedDigits(Head(t) = "-", LeadingDigits(Tail(t)))
    ELSE signedDigits(FALSE, LeadingDigits(t))

\* parseInt(s): leading white space, an optional sign, then the longest run of
\* digits; NaN when there is no digit
parseInt(s) == parseIntTrimmed(StripLeadingSpaces(s))

\* n || 0
orZero(n) == IF n.nan THEN 0 ELSE n.val

\* parseInt(s) || 0
parseIntOrZero(s) == orZero(parseInt(s))

\* val.includes(c)
Includes(s, c) == \E i \in 1..Len(s) : s[i] = c

\* val.split(sep)
RECURSIVE Split(_, _, _)
Split(s, sep, cur) ==
    IF s = <<>> THEN <<cur>>
    ELSE IF Head(s) = sep THEN <<cur>> \o Split(Tail(s), sep, <<>>)
    ELSE Split(Tail(s), sep, Append(cur, Head(s)))

\* key.toLowerCase() on the labels and names the payloads of the model use
toLowerCase(k) ==
    CASE k = "FG" -> "fg"
      [] k = "3PT" -> "3pt"
      [] k = "FT" -> "ft"
      [] k = "TO" -> "to"
      [] k = "Rebounds" -> "rebounds"
      [] k = "Offensive Rebounds" -> "offensive rebounds"
      [] k = "Defensive Rebounds" -> "defensive rebounds"
      [] k = "Turnovers" -> "turnovers"
      [] k = "totalRebounds" -> "totalrebounds"
      [] k = "offensiveRebounds" -> "offensiverebounds"
      [] k = "defensiveRebounds" -> "defensiverebounds"
      [] k = "totalTurnovers" -> "totalturnovers"
      [] k = "fieldGoalsMade-fieldGoalsAttempted" -> "fieldgoalsmade-fieldgoalsattempted"
      [] k = "threePointFieldGoalsMade-threePointFieldGoalsAttempted"
             -> "threepointfieldgoalsmade-threepointfieldgoalsattempted"
      [] k = "freeThrowsMade-freeThrowsAttempted" -> "freethrowsmade-freethrowsattempted"
      [] k = "Field Goals" -> "field goals"
      [] k = "3-Pointers" -> "3-pointers"
      [] k = "Free Throws" -> "free throws"
      [] OTHER -> k

----------------------------------------------------------------------------
(* The box-score parser: parseTeamStats inside fetchGameDetails *)

\* an absent value (undefined); as a string it is falsy like ''
Undefined == <<>>

\* the Map built from teamBox.statistics, as the list of its set(key, value)
\* calls: every entry is stored under its lower-cased label and under its
\* lower-cased name (an empty key is not stored, an empty value is stored as '0')
statEntries(label, name, value) ==
    (IF label # "" THEN <<[key |-> label, value |-> value]>> ELSE <<>>)
    \o (IF name # "" THEN <<[key |-> name, value |-> value]>> ELSE <<>>)

RECURSIVE statsMap(_)
statsMap(statistics) ==
    IF statistics = <<>> THEN <<>>
    ELSE statEntries(toLowerCase(Head(statistics).label),
                     toLowerCase(Head(statistics).name),
                     IF Head(statistics).displayValue = <<>> THEN <<"0">>
                     ELSE Head(statistics).displayValue)
         \o statsMap(Tail(statistics))

LastOf(map, hits) ==
    IF hits = {} THEN Undefined
    ELSE map[CHOOSE i \in hits : \A j \in hits : j <= i].value

\* statsMap.get(key): the value of the last set of that key, or undefined
MapGet(map, key) == LastOf(map, {i \in 1..Len(map) : map[i].key = key})

\* const [made, attempted] = val.split('-').map(v => parseInt(v) || 0)
madeAttempted(parts) ==
    [made |-> parseIntOrZero(parts[1]), attempted |-> parseIntOrZero(parts[2])]

RECURSIVE parseMadeAttempted(_, _)

\* one iteration of parseMadeAttempted's loop: val is the value of the key
\* tried, rest the keys still to try
madeAttemptedFrom(val, map, rest) ==
    IF val # <<>> /\ Includes(val, "-") THEN madeAttempted(Split(val, "-", <<>>))
    ELSE parseMadeAttempted(map, rest)

\* parseMadeAttempted(...keys): the first key whose value is present and
\* contains '-' decides; its first two '-'-separated parts are parsed
parseMadeAttempted(map, keys) ==
    IF keys = <<>> THEN [made |-> 0, attempted |-> 0]
    ELSE madeAttemptedFrom(MapGet(map, toLowerCase(Head(keys))), map, Tail(keys))

RECURSIVE parseSingle(_, _)

\* one iteration of parseSingle's loop
singleFrom(val, map, rest) ==
    IF val # <<>> THEN parseIntOrZero(val) ELSE parseSingle(map, rest)

\* parseSingle(...keys): the first key whose value is present decides
parseSingle(map, keys) ==
    IF keys = <<>> THEN 0
    ELSE singleFrom(MapGet(map, toLowerCase(Head(keys))), map, Tail(keys))

\* share of the total rebounds estimated as offensive, in hundredths
OrebSharePct == 28

\* Math.round(totalReb * 0.28): the nearest integer (28 * t / 100 is never
\* half-way between two integers)
RoundOrebShare(totalReb) == (OrebSharePct * totalReb + 50) \div 100

\* the estimated split of a total
estimatedSplit(totalReb, oreb) == [oreb |-> oreb, dreb |-> totalReb - oreb]

\* the split applied whenever the offensive count is 0, whatever the defensive
reboundSplitIgnoringDreb(oreb, dreb, totalReb) ==
    IF totalReb > 0 /\ oreb = 0
    THEN estimatedSplit(totalReb, RoundOrebShare(totalReb))
    ELSE [oreb |-> oreb, dreb |-> dreb]

\* "If we only have total rebounds, estimate the split"
reboundSplit(oreb, dreb, totalReb) ==
    IF totalReb > 0 /\ oreb = 0 /\ dreb = 0
    THEN estimatedSplit(totalReb, RoundOrebShare(totalReb))
    ELSE [oreb |-> oreb, dreb |-> dreb]

OrebKeys == <<"offensive rebounds", "offensiverebounds">>
DrebKeys == <<"defensive rebounds", "defensiverebounds">>
TotalRebKeys == <<"rebounds", "totalrebounds">>
TurnoverKeys == <<"turnovers", "totalturnovers", "to">>
FgKeys == <<"fg", "fieldgoalsmade-fieldgoalsattempted", "field goals">>
Fg3Keys == <<"3pt", "threepointfieldgoalsmade-threepointfieldgoalsattempted", "3-pointers">>
FtKeys == <<"ft", "freethrowsmade-freethrowsattempted", "free throws">>

\* const boxStats: BoxScoreStats = {...}
boxStats(fg, fg3, ft, reb, turnovers) ==
    [fgm |-> fg.made, fga |-> fg.attempted, fg3m |-> fg3.made, fg3a |-> fg3.attempted,
     ftm |-> ft.made, fta |-> ft.attempted, oreb |-> reb.oreb, dreb |-> reb.dreb,
     turnovers |-> turnovers]

\* the parses of parseTeamStats on its statsMap
boxStatsOfMap(map) ==
    boxStats(parseMadeAttempted(map, FgKeys),
             parseMadeAttempted(map, Fg3Keys),
             parseMadeAttempted(map, FtKeys),
             reboundSplit(parseSingle(map, OrebKeys), parseSingle(map, DrebKeys),
                          parseSingle(map, TotalRebKeys)),
             parseSingle(map, TurnoverKeys))

\* the BoxScoreStats parseTeamStats builds from teamBox.statistics
parseBoxStats(statistics) == boxStatsOfMap(statsMap(statistics))

\* the value of a function returning null
Null == [null |-> TRUE]

\* the outcome of a call that throws
Thrown == [thrown |-> TRUE]

\* the participant taken from the front of the list, whoever it is
competitorAtFront(competitors, id) ==
    IF competitors = <<>> THEN Null ELSE Head(competitors)

\* competition.competitors?.find(c => c.id === id || c.team?.id === id)
RECURSIVE findCompetitor(_, _)
findCompetitor(competitors, id) ==
    IF competitors = <<>> THEN Null
    ELSE IF Head(competitors).id = id \/ Head(competitors).teamId = id THEN Head(competitors)
    ELSE findCompetitor(Tail(competitors), id)

\* a parsed integer as a JavaScript number
numberOf(n) == IF n.nan THEN NaN ELSE Rat(n.val)

\* parseInt(competitor?.score || '0'), a JavaScript number (NaN when the score
\* has no leading digit)
parseScore(competitor) ==
    numberOf(parseInt(IF competitor = Null \/ competitor.score = <<>> THEN <<"0">>
                      ELSE competitor.score))

\* parseTeamStats giving up on a team without field-goal attempts
parseTeamStatsFieldGoalsRequired(teamBox, competition, lookup) ==
    IF teamBox.statistics = <<>> THEN Null
    ELSE IF teamBox.team = Null THEN Thrown
    ELSE IF parseBoxStats(teamBox.statistics).fga = 0 THEN Null
    ELSE [teamId |-> teamBox.team.id,
          teamName |-> IF teamBox.team.id \in DOMAIN lookup
                       THEN [from |-> "roster", id |-> teamBox.team.id]
                       ELSE [from |-> "payload", id |-> teamBox.team.id],
          score |-> parseScore(findCompetitor(competition.competitors, teamBox.team.id)),
          isHome |-> teamBox.homeAway = "home",
          box |-> parseBoxStats(teamBox.statistics),
          factors |-> ZeroFactors]

\* parseTeamStats(teamBox): null without statistics; the four factors are
\* placeholders to be overwritten; the display fields come from the roster when
\* the team is in it and from the payload otherwise (of the display fields only
\* the name is modelled: abbreviation, logo and colour follow the same rule)
parseTeamStats(teamBox, competition, lookup) ==
    IF teamBox.statistics = <<>> THEN Null
    ELSE IF teamBox.team = Null THEN Thrown
    ELSE LET id == teamBox.team.id
         IN  [teamId |-> id,
              teamName |-> IF id \in DOMAIN lookup
                           THEN [from |-> "roster", id |-> id]
                           ELSE [from |-> "payload", id |-> id],
              score |-> parseScore(findCompetitor(competition.competitors, id)),
              isHome |-> teamBox.homeAway = "home",
              box |-> parseBoxStats(teamBox.statistics),
              factors |-> ZeroFactors]

\* !!(homeTeamData && awayTeamData &&
\*    homeTeamData.conferenceId === awayTeamData.conferenceId)
isConferenceGame(homeId, awayId, lookup) ==
    /\ homeId \in DOMAIN lookup
    /\ awayId \in DOMAIN lookup
    /\ lookup[homeId].conferenceId = lookup[awayId].conferenceId

\* the Game object returned
gameRecord(gameId, competition, homeTeam, awayTeam, lookup) ==
    [id |-> gameId,
     date |-> competition.date,
     homeTeam |-> homeTeam,
     awayTeam |-> awayTeam,
     isComplete |-> competition.completed,
     isConferenceGame |-> isConferenceGame(homeTeam.teamId, awayTeam.teamId, lookup)]

\* the factors calculated with the team's own defensive rebounds
withFactorsOwnDreb(teamStats, oppStats) ==
    [teamStats EXCEPT !.factors = calculateFourFactors(teamStats.box, teamStats.box.dreb)]

\* Object.assign(teamStats, calculateFourFactors(teamStats, opponent.dreb))
withFactors(teamStats, oppStats) ==
    [teamStats EXCEPT !.factors = calculateFourFactors(teamStats.box, oppStats.box.dreb)]

\* home and away taken from the position in boxscore.teams
gameOfTeamsByPosition(gameId, competition, team0, team1, lookup) ==
    gameRecord(gameId, competition, team0, team1, lookup)

\* "Determine home/away"
gameOfTeams(gameId, competition, team0, team1, lookup) ==
    gameRecord(gameId, competition,
               IF team0.isHome THEN team0 ELSE team1,
               IF team0.isHome THEN team1 ELSE team0,
               lookup)

\* the part of fetchGameDetails after the two parseTeamStats calls
gameOfStats(gameId, competition, team0Stats, team1Stats, lookup) ==
    IF team0Stats = Thrown \/ team1Stats = Thrown THEN Null
    ELSE IF team0Stats = Null \/ team1Stats = Null THEN Null
    ELSE gameOfTeams(gameId, competition,
                     withFactors(team0Stats, team1Stats),
                     withFactors(team1Stats, team0Stats), lookup)

\* the payload handled without the check of the competition block
gameOfDataWithoutCompetitionCheck(gameId, data, lookup) ==
    IF ~data.hasBoxscore \/ Len(data.teams) < 2 THEN Null
    ELSE gameOfStats(gameId, data.competition,
                     parseTeamStats(data.teams[1], data.competition, lookup),
                     parseTeamStats(data.teams[2], data.competition, lookup),
                     lookup)

\* the part of fetchGameDetails on the JSON payload
gameOfData(gameId, data, lookup) ==
    IF ~data.hasBoxscore \/ Len(data.teams) < 2 THEN Null
    ELSE IF ~data.hasCompetition THEN Null
    ELSE gameOfStats(gameId, data.competition,
                     parseTeamStats(data.teams[1], data.competition, lookup),
                     parseTeamStats(data.teams[2], data.competition, lookup),
                     lookup)

\* fetchGameDetails(gender, gameId, teamLookup) on the outcome of
\* fetchWithRetry: resp.kind is "throw" (every attempt failed), "notok" or
\* "ok" with the JSON payload in resp.data; anything thrown inside is caught
\* and gives null
fetchGameDetails(gameId, resp, lookup) ==
    IF resp.kind # "ok" THEN Null ELSE gameOfData(gameId, resp.data, lookup)

----------------------------------------------------------------------------
(* The standings aggregator: calculateStandings *)

ZeroStanding(teamId) ==
    [teamId |-> teamId, gamesPlayed |-> 0, wins |-> 0, losses |-> 0,
     confWins |-> 0, confLosses |-> 0,
     efg |-> Zero, tov |-> Zero, orb |-> Zero, ftr |-> Zero,
     oppEfg |-> Zero, oppTov |-> Zero, oppOrb |-> Zero, oppFtr |-> Zero,
     ppg |-> Zero, oppPpg |-> Zero]

ZeroTeamStats ==
    [games |-> 0, wins |-> 0, losses |-> 0, confWins |-> 0, confLosses |-> 0,
     efgSum |-> Zero, tovSum |-> Zero, orbSum |-> Zero, ftrSum |-> Zero,
     oppEfgSum |-> Zero, oppTovSum |-> Zero, oppOrbSum |-> Zero, oppFtrSum |-> Zero,
     pointsSum |-> Zero, oppPointsSum |-> Zero]

RosterIds(teams) == {teams[i].id : i \in 1..Len(teams)}

\* processTeam crediting a loss only when the opponent scored more
processTeamTieUncounted(st, g, ownStats, oppStats) ==
    LET won == RGt(ownStats.score, oppStats.score)
        lost == RGt(oppStats.score, ownStats.score)
        conf == IF g.isConferenceGame THEN 1 ELSE 0
    IN  [games |-> st.games + 1,
         wins |-> IF won THEN st.wins + 1 ELSE st.wins,
         losses |-> IF lost THEN st.losses + 1 ELSE st.losses,
         confWins |-> IF won THEN st.confWins + conf ELSE st.confWins,
         confLosses |-> IF lost THEN st.confLosses + conf ELSE st.confLosses,
         efgSum |-> RAdd(st.efgSum, ownStats.factors.efg),
         tovSum |-> RAdd(st.tovSum, ownStats.factors.tov),
         orbSum |-> RAdd(st.orbSum, ownStats.factors.orb),
         ftrSum |-> RAdd(st.ftrSum, ownStats.factors.ftr),
         oppEfgSum |-> RAdd(st.oppEfgSum, oppStats.factors.efg),
         oppTovSum |-> RAdd(st.oppTovSum, oppStats.factors.tov),
         oppOrbSum |-> RAdd(st.oppOrbSum, oppStats.factors.orb),
         oppFtrSum |-> RAdd(st.oppFtrSum, oppStats.factors.ftr),
         pointsSum |-> RAdd(st.pointsSum, ownStats.score),
         oppPointsSum |-> RAdd(st.oppPointsSum, oppStats.score)]

\* processTeam with won = !(oppStats.score > ownStats.score): equal scores
\* count as a win for both sides
processTeamTieWon(st, g, ownStats, oppStats) ==
    LET won == ~RGt(oppStats.score, ownStats.score)
        conf == IF g.isConferenceGame THEN 1 ELSE 0
    IN  [games |-> st.games + 1,
         wins |-> IF won THEN st.wins + 1 ELSE st.wins,
         losses |-> IF won THEN st.losses ELSE st.losses + 1,
         confWins |-> IF won THEN st.confWins + conf ELSE st.confWins,
         confLosses |-> IF won THEN st.confLosses ELSE st.confLosses + conf,
         efgSum |-> RAdd(st.efgSum, ownStats.factors.efg),
         tovSum |-> RAdd(st.tovSum, ownStats.factors.tov),
         orbSum |-> RAdd(st.orbSum, ownStats.factors.orb),
         ftrSum |-> RAdd(st.ftrSum, ownStats.factors.ftr),
         oppEfgSum |-> RAdd(st.oppEfgSum, oppStats.factors.efg),
         oppTovSum |-> RAdd(st.oppTovSum, oppStats.factors.tov),
         oppOrbSum |-> RAdd(st.oppOrbSum, oppStats.factors.orb),
         oppFtrSum |-> RAdd(st.oppFtrSum, oppStats.factors.ftr),
         pointsSum |-> RAdd(st.pointsSum, ownStats.score),
         oppPointsSum |-> RAdd(st.oppPointsSum, oppStats.score)]

\* processTeam(ownStats, oppStats) on the accumulator st of ownStats.teamId,
\* inside the loop over the games: g is the game
processTeam(st, g, ownStats, oppStats) ==
    LET won == RGt(ownStats.score, oppStats.score)
        conf == IF g.isConferenceGame THEN 1 ELSE 0
    IN  [games |-> st.games + 1,
         wins |-> IF won THEN st.wins + 1 ELSE st.wins,
         losses |-> IF won THEN st.losses ELSE st.losses + 1,
         confWins |-> IF won THEN st.confWins + conf ELSE st.confWins,
         confLosses |-> IF won THEN st.confLosses ELSE st.confLosses + conf,
         efgSum |-> RAdd(st.efgSum, ownStats.factors.efg),
         tovSum |-> RAdd(st.tovSum, ownStats.factors.tov),
         orbSum |-> RAdd(st.orbSum, ownStats.factors.orb),
         ftrSum |-> RAdd(st.ftrSum, ownStats.factors.ftr),
         oppEfgSum |-> RAdd(st.oppEfgSum, oppStats.factors.efg),
         oppTovSum |-> RAdd(st.oppTovSum, oppStats.factors.tov),
         oppOrbSum |-> RAdd(st.oppOrbSum, oppStats.factors.orb),
         oppFtrSum |-> RAdd(st.oppFtrSum, oppStats.factors.ftr),
         pointsSum |-> RAdd(st.pointsSum, ownStats.score),
         oppPointsSum |-> RAdd(st.oppPointsSum, oppStats.score)]

\* "Process home team if it's a CUSA team"
processHome(teamStats, g) ==
    IF g.homeTeam.teamId \in DOMAIN teamStats
    THEN [teamStats EXCEPT ![g.homeTeam.teamId] = processTeam(@, g, g.homeTeam, g.awayTeam)]
    ELSE teamStats

\* "Process away team if it's a CUSA team"
processAway(teamStats, g) ==
    IF g.awayTeam.teamId \in DOMAIN teamStats
    THEN [teamStats EXCEPT ![g.awayTeam.teamId] = processTeam(@, g, g.awayTeam, g.homeTeam)]
    ELSE teamStats

\* one iteration of the loop over the games without the isComplete check
processGameIncompleteToo(teamStats, g) ==
    processAway(processHome(teamStats, g), g)

\* one iteration of the loop over the games: an incomplete game is skipped; the
\* home side is processed when it is a roster team, then the away side
processGame(teamStats, g) ==
    IF ~g.isComplete THEN teamStats ELSE processAway(processHome(teamStats, g), g)

RECURSIVE aggregateGames(_, _)
aggregateGames(teamStats, gameList) ==
    IF gameList = <<>> THEN teamStats
    ELSE aggregateGames(processGame(teamStats, Head(gameList)), Tail(gameList))

\* the row holding the running sums as they are, not divided by the games
averageRowUndivided(teamId, st) ==
    IF st.games = 0 THEN ZeroStanding(teamId)
    ELSE [teamId |-> teamId, gamesPlayed |-> st.games,
          wins |-> st.wins, losses |-> st.losses,
          confWins |-> st.confWins, confLosses |-> st.confLosses,
          efg |-> st.efgSum, tov |-> st.tovSum, orb |-> st.orbSum, ftr |-> st.ftrSum,
          oppEfg |-> st.oppEfgSum, oppTov |-> st.oppTovSum,
          oppOrb |-> st.oppOrbSum, oppFtr |-> st.oppFtrSum,
          ppg |-> st.pointsSum, oppPpg |-> st.oppPointsSum]

\* "Calculate averages": a team without a game keeps its initial row
averageRow(teamId, st) ==
    IF st.games = 0 THEN ZeroStanding(teamId)
    ELSE LET n == Rat(st.games)
         IN  [teamId |-> teamId, gamesPlayed |-> st.games,
              wins |-> st.wins, losses |-> st.losses,
              confWins |-> st.confWins, confLosses |-> st.confLosses,
              efg |-> RDiv(st.efgSum, n), tov |-> RDiv(st.tovSum, n),
              orb |-> RDiv(st.orbSum, n), ftr |-> RDiv(st.ftrSum, n),
              oppEfg |-> RDiv(st.oppEfgSum, n), oppTov |-> RDiv(st.oppTovSum, n),
              oppOrb |-> RDiv(st.oppOrbSum, n), oppFtr |-> RDiv(st.oppFtrSum, n),
              ppg |-> RDiv(st.pointsSum, n), oppPpg |-> RDiv(st.oppPointsSum, n)]

RECURSIVE SelectRows(_, _)
SelectRows(rows, keep) ==
    IF rows = <<>> THEN <<>>
    ELSE IF keep[1] THEN <<Head(rows)>> \o SelectRows(Tail(rows), Tail(keep))
    ELSE SelectRows(Tail(rows), Tail(keep))

\* the rows with those of the teams without a game left out
standingsRowsPlayedOnly(teams, teamStats) ==
    SelectRows([i \in 1..Len(teams) |-> averageRow(teams[i].id, teamStats[teams[i].id])],
               [i \in 1..Len(teams) |-> teamStats[teams[i].id].games > 0])

\* Array.from(standingsMap.values()): one row per roster team, in the order
\* the teams were inserted (the roster holds no id twice)
standingsRows(teams, teamStats) ==
    [i \in 1..Len(teams) |-> averageRow(teams[i].id, teamStats[teams[i].id])]

\* the comparator without the tie-break on conference wins
compareStandingsWinsOnly(a, b) == b.wins - a.wins

\* the sort comparator: negative when a goes before b
compareStandings(a, b) ==
    IF b.wins # a.wins THEN b.wins - a.wins ELSE b.confWins - a.confWins

RECURSIVE insertStanding(_, _)
insertStanding(row, sorted) ==
    IF sorted = <<>> THEN <<row>>
    ELSE IF compareStandings(Head(sorted), row) <= 0
         THEN <<Head(sorted)>> \o insertStanding(row, Tail(sorted))
         ELSE <<row>> \o sorted

\* Array.prototype.sort, which is stable
RECURSIVE sortStandings(_, _)
sortStandings(rows, sorted) ==
    IF rows = <<>> THEN sorted
    ELSE sortStandings(Tail(rows), insertStanding(Head(rows), sorted))

\* calculateStandings with the running sums kept from one application to the
\* next: the second application folds the games onto what the first left
calculateStandingsSharedSums(teams, gameList) ==
    sortStandings(
        standingsRows(teams,
                      aggregateGames([id \in RosterIds(teams) |-> ZeroTeamStats],
                                     IF standingsDone THEN gameList \o gameList ELSE gameList)),
        <<>>)

\* calculateStandings: the sums over the games (teamStats), then the rows with
\* the averages, then the sort; each is held once it is computed
calculateStandings(teams, gameList) ==
    CHOOSE sorted \in
        {sortStandings(rows, <<>>) :
            rows \in {standingsRows(teams, teamStats) :
                        teamStats \in {aggregateGames([id \in RosterIds(teams) |-> ZeroTeamStats],
                                                      gameList)}}} : TRUE

----------------------------------------------------------------------------
(* Payloads and rosters drawn for fetchGameDetails *)

TeamIds == {"t1", "t2", "t3"}

\* conference ids of the conference list; an entry without groupId gives a
\* conference whose id is undefined
NoConferenceId == "undefined"
ConferenceIds == {"c1", "c2", NoConferenceId}

Team(id, conferenceId) == [id |-> id, conferenceId |-> conferenceId]

\* every Map a roster over TeamIds can give
TeamLookups ==
    UNION {[ids -> ConferenceIds] : ids \in SUBSET TeamIds}

LookupOf(confOf) == [id \in DOMAIN confOf |-> Team(id, confOf[id])]

Stat(label, name, displayValue) ==
    [label |-> label, name |-> name, displayValue |-> displayValue]

\* a complete statistics list as the upstream source sends it
FullStatistics ==
    << Stat("FG", "fieldGoalsMade-fieldGoalsAttempted", <<"2", "8", "-", "5", "3">>),
       Stat("3PT", "threePointFieldGoalsMade-threePointFieldGoalsAttempted",
            <<"4", "-", "1", "2">>),
       Stat("FT", "freeThrowsMade-freeThrowsAttempted", <<"2", "6", "-", "3", "2">>),
       Stat("Rebounds", "totalRebounds", <<"3", "9">>),
       Stat("Offensive Rebounds", "offensiveRebounds", <<"1", "1">>),
       Stat("Defensive Rebounds", "defensiveRebounds", <<"2", "8">>),
       Stat("Turnovers", "turnovers", <<"1", "3">>) >>

\* a second statistics list, with other counts
OtherStatistics ==
    << Stat("FG", "fieldGoalsMade-fieldGoalsAttempted", <<"2", "5", "-", "6", "0">>),
       Stat("3PT", "threePointFieldGoalsMade-threePointFieldGoalsAttempted",
            <<"8", "-", "2", "0">>),
       Stat("FT", "freeThrowsMade-freeThrowsAttempted", <<"1", "0", "-", "1", "5">>),
       Stat("Offensive Rebounds", "offensiveRebounds", <<"7">>),
       Stat("Defensive Rebounds", "defensiveRebounds", <<"2", "5">>),
       Stat("Turnovers", "turnovers", <<"9">>) >>

\* the rebound entries, and two others, with the values drawn for them
ParseStatEntries ==
    {Stat(k[1], k[2], v) :
        k \in {<<"Rebounds", "totalRebounds">>,
               <<"Offensive Rebounds", "offensiveRebounds">>,
               <<"Defensive Rebounds", "defensiveRebounds">>},
        v \in {<<>>, <<"0">>, <<"9">>, <<"4", "0">>}}
    \cup {Stat("FG", "fieldGoalsMade-fieldGoalsAttempted", <<"2", "8", "-", "5", "3">>),
          Stat("FG", "", <<"a", "b", "c">>),
          Stat("TO", "totalTurnovers", <<"1", "3">>)}

RECURSIVE SeqsUpTo(_, _)
SeqsUpTo(S, n) ==
    IF n = 0 THEN {<<>>}
    ELSE LET shorter == SeqsUpTo(S, n - 1)
         IN  shorter \cup {Append(q, x) : q \in shorter, x \in S}

RECURSIVE Orderings(_)
Orderings(S) ==
    IF S = {} THEN {<<>>}
    ELSE UNION {{<<x>> \o q : q \in Orderings(S \ {x})} : x \in S}

TeamBox(id, homeAway, statistics) ==
    [team |-> [id |-> id], homeAway |-> homeAway, statistics |-> statistics]

Competitor(id, score) == [id |-> id, teamId |-> id, score |-> score]

Competition(competitors, completed, date) ==
    [competitors |-> competitors, completed |-> completed, date |-> date]

NoCompetition == Competition(<<>>, FALSE, 0)

OkResponse(teams, competition) ==
    [kind |-> "ok",
     data |-> [hasBoxscore |-> TRUE, teams |-> teams,
               hasCompetition |-> competition # NoCompetition,
               competition |-> competition]]

NoBoxscoreResponse(competition) ==
    [kind |-> "ok",
     data |-> [hasBoxscore |-> FALSE, teams |-> <<>>,
               hasCompetition |-> competition # NoCompetition,
               competition |-> competition]]

ThrowResponse == [kind |-> "throw"]
NotOkResponse == [kind |-> "notok"]

StandardCompetitors ==
    << Competitor("t1", <<"7", "0">>), Competitor("t2", <<"6", "5">>),
       Competitor("t3", <<"6", "5">>) >>

\* field-goal entries under each of the three candidate keys: values that are
\* "M-A" pairs, a value without '-' and a value that is a '-' alone
PairStatEntries ==
    {Stat("FG", "", <<"-">>),
     Stat("FG", "", <<"1", "2">>),
     Stat("FG", "", <<"5", "-", "6">>),
     Stat("", "fieldGoalsMade-fieldGoalsAttempted", <<"1", "-", "2">>),
     Stat("Field Goals", "", <<"3", "-", "4">>)}

\* the responses drawn when the parser is exercised: the first team's
\* statistics vary, the rest is fixed
ParseResponses ==
    {OkResponse(<<TeamBox("t1", "home", st), TeamBox("t2", "away", FullStatistics)>>,
                Competition(StandardCompetitors, TRUE, 1)) :
        st \in SeqsUpTo(ParseStatEntries, MaxStats) \cup SeqsUpTo(PairStatEntries, MaxStats)}

GameTeamBoxes ==
    {TeamBox(id, ha, st) :
        id \in TeamIds, ha \in {"home", "away"}, st \in {<<>>, FullStatistics}}
    \cup {[team |-> Null, homeAway |-> "home", statistics |-> FullStatistics]}

GameCompetitions ==
    {Competition(cs, done, 1) :
        cs \in {<<>>, StandardCompetitors}, done \in BOOLEAN}
    \cup {NoCompetition}

\* participants of a competition: t1 under its id and under its team id only,
\* t2 with and without a score, t3
ScoreCompetitors ==
    {Competitor("t1", <<"7", "0">>),
     [id |-> "901", teamId |-> "t1", score |-> <<"7", "1">>],
     Competitor("t2", <<"6", "5">>),
     Competitor("t2", <<>>),
     Competitor("t3", <<"5", "0">>)}

\* the participant lists: one or two participants of different teams, in
\* every order
ScoreCompetitorLists ==
    UNION {Orderings(cs) :
             cs \in {ps \in SUBSET ScoreCompetitors :
                        /\ Cardinality(ps) \in 1..2
                        /\ \A p, q \in ps : p.teamId = q.teamId => p = q}}

\* the summaries of one game of t1 against t2 with these participant lists
ScoreResponses ==
    {OkResponse(<<TeamBox("t1", "home", FullStatistics),
                  TeamBox("t2", "away", FullStatistics)>>,
                Competition(cs, TRUE, 1)) :
        cs \in ScoreCompetitorLists}

\* the summaries of one game of t1 against t2 with different box scores, the
\* two sides in either order and tagged either way
ReboundResponses ==
    {OkResponse(<<TeamBox(ids[1], ha1, FullStatistics), TeamBox(ids[2], ha2, OtherStatistics)>>,
                Competition(StandardCompetitors, TRUE, 1)) :
        ids \in {<<"t1", "t2">>, <<"t2", "t1">>},
        ha1 \in {"home", "away"}, ha2 \in {"home", "away"}}

\* the responses drawn when fetchGameDetails as a whole is exercised
GameResponses ==
    {ThrowResponse, NotOkResponse}
    \cup ScoreResponses
    \cup ReboundResponses
    \cup {NoBoxscoreResponse(c) : c \in GameCompetitions}
    \cup {OkResponse(ts, c) :
            ts \in {<<>>} \cup {<<a>> : a \in GameTeamBoxes}
                   \cup {<<a, b>> : a \in GameTeamBoxes, b \in GameTeamBoxes},
            c \in GameCompetitions}

\* the variables of a part of the program a specification does not exercise
CalcIdle ==
    /\ stats = ZeroStats
    /\ opponentDreb = 0
    /\ factors = ZeroFactors
    /\ calcDone = FALSE
    /\ libFactors = <<>>

Genders == {"mens", "womens"}

\* a file the invocation has not written: it holds what an earlier run left
OldFile == [written |-> FALSE, content |-> <<>>]

WrittenFile(content) == [written |-> TRUE, content |-> content]

OldFiles == [teams |-> OldFile, games |-> OldFile, standings |-> OldFile]

RunIdle ==
    /\ argv = <<>>
    /\ season = <<>>
    /\ pc = "idle"
    /\ gender = "mens"
    /\ dirsMade = FALSE
    /\ confResponse = "none"
    /\ conferences = <<>>
    /\ ci = 1
    /\ entries = <<>>
    /\ ei = 1
    /\ confTeams = <<>>
    /\ allTeams = <<>>
    /\ ti = 1
    /\ gameIds = <<>>
    /\ gi = 1
    /\ attempt = 0
    /\ games = <<>>
    /\ standings = <<>>
    /\ files = [g \in Genders |-> OldFiles]
    /\ lastRequest = "none"
    /\ waited = <<>>

StandingsIdle ==
    /\ rosterArg = <<>>
    /\ gamesArg = <<>>
    /\ standingsOut = <<>>
    /\ standingsDone = FALSE
    /\ standingsAgain = <<>>

RosterIdle ==
    /\ teamLists = <<>>
    /\ rosterOut = <<>>
    /\ rosterDone = FALSE

GameIdle ==
    /\ response = NotOkResponse
    /\ teamLookup = LookupOf([id \in {} |-> "c1"])
    /\ game = Null
    /\ gameDone = FALSE

ParseInit ==
    /\ RunIdle
    /\ CalcIdle
    /\ StandingsIdle
    /\ RosterIdle
    /\ response \in ParseResponses
    /\ teamLookup = LookupOf([id \in {"t1", "t2"} |-> "c1"])
    /\ game = Null
    /\ gameDone = FALSE

GameInit ==
    /\ RunIdle
    /\ CalcIdle
    /\ StandingsIdle
    /\ RosterIdle
    /\ response \in GameResponses
    /\ teamLookup \in {LookupOf(f) : f \in TeamLookups}
    /\ game = Null
    /\ gameDone = FALSE

FetchGameDetails ==
    /\ ~gameDone
    /\ game' = fetchGameDetails("g1", response, teamLookup)
    /\ gameDone' = TRUE
    /\ UNCHANGED <<response, teamLookup>>
    /\ UNCHANGED <<calcVars, standingsVars, rosterVars, runVars>>

GameNext == FetchGameDetails

SpecParse == ParseInit /\ [][GameNext]_vars

SpecGame == GameInit /\ [][GameNext]_vars

----------------------------------------------------------------------------
(* calculateFourFactors applied to one input *)

CalcInit ==
    /\ RunIdle
    /\ GameIdle
    /\ StandingsIdle
    /\ RosterIdle
    /\ stats \in BoxScoreStats
    /\ opponentDreb \in 0..MaxCount
    /\ factors = ZeroFactors
    /\ calcDone = FALSE
    /\ libFactors = <<>>

Calculate ==
    /\ ~calcDone
    /\ factors' = calculateFourFactors(stats, opponentDreb)
    /\ calcDone' = TRUE
    /\ UNCHANGED <<stats, opponentDreb, libFactors>>
    /\ UNCHANGED <<gameVars, standingsVars, rosterVars, runVars>>

\* the library's calculateFourFactors applied to the same input
CalculateLibrary ==
    /\ calcDone
    /\ libFactors = <<>>
    /\ libFactors' = <<libCalculateFourFactors(stats, opponentDreb)>>
    /\ UNCHANGED <<stats, opponentDreb, factors, calcDone>>
    /\ UNCHANGED <<gameVars, standingsVars, rosterVars, runVars>>

CalcNext == Calculate \/ CalculateLibrary

SpecCalc == CalcInit /\ [][CalcNext]_vars

----------------------------------------------------------------------------
(* calculateStandings applied to one roster and one list of games *)

\* the conferences the teams are drawn in: all three in one, or t3 apart
ConferenceAssignments ==
    {[id \in TeamIds |-> "c1"],
     [id \in TeamIds |-> IF id = "t3" THEN "c2" ELSE "c1"]}

\* the rosters: every ordering of every subset of TeamIds
StandingsRosters ==
    UNION {{[i \in 1..Len(o) |-> Team(o[i], conf[o[i]])] :
                conf \in ConferenceAssignments, o \in Orderings(ids)} :
           ids \in SUBSET TeamIds}

\* new Map(teams.map(t => [t.id, t])): the last team of an id wins
teamLookupOf(teams) ==
    [id \in RosterIds(teams) |->
        teams[CHOOSE i \in 1..Len(teams) :
                 teams[i].id = id /\ \A j \in (i + 1)..Len(teams) : teams[j].id # id]]

\* what is drawn for one game: who plays at home and away, the two scores and
\* whether the game is completed
GameDraws ==
    {[home |-> pr[1], away |-> pr[2], homeScore |-> sc[1], awayScore |-> sc[2],
      completed |-> TRUE] :
        pr \in {<<"t1", "t2">>, <<"t2", "t3">>, <<"t3", "t1">>, <<"t2", "t1">>},
        sc \in {<< <<"7", "0">>, <<"6", "5">> >>, << <<"6", "5">>, <<"7", "0">> >>,
                << <<"7", "0">>, <<"7", "0">> >>}}
    \cup {[home |-> "t1", away |-> "t2", homeScore |-> <<"7", "0">>,
           awayScore |-> <<"6", "5">>, completed |-> FALSE]}

GameIdAt(i) == <<"g1", "g2", "g3", "g4", "g5">>[i]

DrawnResponse(d) ==
    OkResponse(<<TeamBox(d.home, "home", FullStatistics),
                 TeamBox(d.away, "away", OtherStatistics)>>,
               Competition(<<Competitor(d.home, d.homeScore),
                             Competitor(d.away, d.awayScore)>>, d.completed, 1))

\* the Game fetchGameDetails emits for the i-th game of a list, for each draw
\* and each roster lookup (tabulated once)
DrawnGames ==
    [i \in 1..(MaxGames + 1), d \in GameDraws, lookup \in {teamLookupOf(r) : r \in StandingsRosters} |->
        fetchGameDetails(GameIdAt(i), DrawnResponse(d), lookup)]

DrawnGame(i, d, teams) == DrawnGames[i, d, teamLookupOf(teams)]

StandingsInit ==
    /\ RunIdle
    /\ RosterIdle
    /\ CalcIdle
    /\ GameIdle
    /\ rosterArg \in StandingsRosters
    /\ \E ds \in SeqsUpTo(GameDraws, MaxGames) :
           gamesArg = [i \in 1..Len(ds) |-> DrawnGame(i, ds[i], rosterArg)]
    /\ standingsOut = <<>>
    /\ standingsDone = FALSE
    /\ standingsAgain = <<>>

CalculateStandings ==
    /\ ~standingsDone
    /\ standingsOut' = calculateStandings(rosterArg, gamesArg)
    /\ standingsDone' = TRUE
    /\ UNCHANGED <<rosterArg, gamesArg, standingsAgain>>
    /\ UNCHANGED <<calcVars, gameVars, rosterVars, runVars>>

\* calculateStandings applied once more to the arguments the first application left
CalculateStandingsAgain ==
    /\ standingsDone
    /\ standingsAgain = <<>>
    /\ standingsAgain' = <<calculateStandings(rosterArg, gamesArg)>>
    /\ UNCHANGED <<rosterArg, gamesArg, standingsOut, standingsDone>>
    /\ UNCHANGED <<calcVars, gameVars, rosterVars, runVars>>

StandingsNext == CalculateStandings \/ CalculateStandingsAgain

SpecStandings == StandingsInit /\ [][StandingsNext]_vars

----------------------------------------------------------------------------
(* The upstream source one invocation runs against: what each endpoint       *)
(* returns when it answers; whether a request fails is drawn at each request *)

\* groupId of the "NCAA Division I" aggregate, which is left out
AggregateGroupId == "50"

\* the groupIds of data.conferences
ConferenceListOf(g) ==
    IF g = "mens" THEN <<"c1", AggregateGroupId, "c2">> ELSE <<"c1">>

Entry(id) == [hasTeam |-> TRUE, id |-> id]
EntryWithoutTeam == [hasTeam |-> FALSE, id |-> ""]

\* data.standings.entries of a conference: t2 is listed by both conferences
EntriesOf(g, conferenceId) ==
    IF g = "mens"
    THEN IF conferenceId = "c1" THEN <<Entry("t1"), Entry("t2")>>
         ELSE <<EntryWithoutTeam, Entry("t2")>>
    ELSE <<Entry("t2")>>

Event(gameId, isComplete) == [gameId |-> gameId, isComplete |-> isComplete]

\* data.events of a team's schedule: g1 is in both participants' schedules,
\* g2 and g4 in one only, g3 is not completed
ScheduleOf(g, teamId) ==
    IF g = "mens"
    THEN IF teamId = "t1" THEN <<Event("g1", TRUE), Event("g2", TRUE), Event("g3", FALSE)>>
         ELSE <<Event("g1", TRUE), Event("g3", FALSE), Event("g4", TRUE)>>
    ELSE <<Event("g1", TRUE)>>

\* the teams and the competition of a game summary; t3 is in no conference
SummaryTeamsOf(g, gameId) ==
    IF g = "mens"
    THEN IF gameId = "g2"
         THEN <<TeamBox("t1", "away", OtherStatistics), TeamBox("t3", "home", FullStatistics)>>
         ELSE <<TeamBox("t1", "home", FullStatistics), TeamBox("t2", "away", OtherStatistics)>>
    ELSE <<TeamBox("t2", "home", FullStatistics), TeamBox("t3", "away", OtherStatistics)>>

SummaryCompetitionOf(g, gameId) ==
    IF gameId = "g1" THEN Competition(StandardCompetitors, TRUE, 1)
    ELSE IF gameId = "g2" THEN Competition(StandardCompetitors, TRUE, 2)
    ELSE IF gameId = "g4" THEN Competition(StandardCompetitors, TRUE, 4)
    ELSE Competition(StandardCompetitors, FALSE, 3)

\* what the summary request of a game can give once a fetch attempt succeeds:
\* a non-OK response, the game's payload, or the payload with its box score,
\* one of its teams, its competition block or a team's statistics missing
SummaryResponsesOf(g, gameId) ==
    LET ts == SummaryTeamsOf(g, gameId)
        comp == SummaryCompetitionOf(g, gameId)
    IN  {NotOkResponse,
         OkResponse(ts, comp),
         NoBoxscoreResponse(comp),
         OkResponse(<<ts[1]>>, comp),
         OkResponse(ts, NoCompetition),
         OkResponse(<<ts[1], [ts[2] EXCEPT !.statistics = <<>>]>>, comp)}

\* the payloads that hold no usable game
Droppable(resp) ==
    \/ resp.kind # "ok"
    \/ ~resp.data.hasBoxscore
    \/ Len(resp.data.teams) < 2
    \/ ~resp.data.hasCompetition

----------------------------------------------------------------------------
(* One invocation: main, fetchGenderData, fetchAllTeams and the loops *)

\* fetchWithRetry's default maxRetries
MaxRetries == 3

RECURSIVE filterConferences(_)
filterConferences(groupIds) ==
    IF groupIds = <<>> THEN <<>>
    ELSE IF Head(groupIds) # AggregateGroupId
         THEN <<Head(groupIds)>> \o filterConferences(Tail(groupIds))
         ELSE filterConferences(Tail(groupIds))

RECURSIVE entriesWithTeam(_)
entriesWithTeam(es) ==
    IF es = <<>> THEN <<>>
    ELSE IF Head(es).hasTeam THEN <<Head(es)>> \o entriesWithTeam(Tail(es))
         ELSE entriesWithTeam(Tail(es))

\* the merge in which a team seen again replaces the one kept
RECURSIVE mergeTeamsLastWins(_, _)
mergeTeamsLastWins(all, found) ==
    IF found = <<>> THEN all
    ELSE IF Head(found).id \in RosterIds(all)
         THEN mergeTeamsLastWins([i \in 1..Len(all) |->
                                     IF all[i].id = Head(found).id THEN Head(found)
                                     ELSE all[i]],
                                 Tail(found))
         ELSE mergeTeamsLastWins(Append(all, Head(found)), Tail(found))

\* "Deduplicate teams": a team is pushed unless its id has been seen
RECURSIVE mergeTeams(_, _)
mergeTeams(all, found) ==
    IF found = <<>> THEN all
    ELSE IF Head(found).id \in RosterIds(all) THEN mergeTeams(all, Tail(found))
         ELSE mergeTeams(Append(all, Head(found)), Tail(found))

\* the loop of fetchAllTeams over the conferences: lists[k] is what
\* fetchConferenceTeams returned for the k-th conference
RECURSIVE fetchAllTeams(_, _)
fetchAllTeams(all, lists) ==
    IF lists = <<>> THEN all
    ELSE fetchAllTeams(mergeTeams(all, Head(lists)), Tail(lists))

\* the schedule loop's body adding every event, completed or not
addCompletedUnfiltered(ids, schedule) ==
    LET RECURSIVE add(_, _)
        add(acc, evs) ==
            IF evs = <<>> THEN acc
            ELSE IF \E i \in 1..Len(acc) : acc[i] = Head(evs).gameId
                 THEN add(acc, Tail(evs))
                 ELSE add(Append(acc, Head(evs).gameId), Tail(evs))
    IN  add(ids, schedule)

\* the schedule loop's body pushing the completed ids on a list, seen or not
addCompletedKeepingDuplicates(ids, schedule) ==
    LET RECURSIVE add(_, _)
        add(acc, evs) ==
            IF evs = <<>> THEN acc
            ELSE IF Head(evs).isComplete
                 THEN add(Append(acc, Head(evs).gameId), Tail(evs))
                 ELSE add(acc, Tail(evs))
    IN  add(ids, schedule)

\* the schedule loop's body: gameIds.add(game.gameId) for the completed games
addCompleted(ids, schedule) ==
    LET RECURSIVE add(_, _)
        add(acc, evs) ==
            IF evs = <<>> THEN acc
            ELSE IF Head(evs).isComplete /\ ~(\E i \in 1..Len(acc) : acc[i] = Head(evs).gameId)
                 THEN add(Append(acc, Head(evs).gameId), Tail(evs))
                 ELSE add(acc, Tail(evs))
    IN  add(ids, schedule)

\* if (game) games.push(game)
pushGame(gs, g) == IF g # Null THEN Append(gs, g) ELSE gs

RECURSIVE insertByDate(_, _)
insertByDate(g, sorted) ==
    IF sorted = <<>> THEN <<g>>
    ELSE IF Head(sorted).date >= g.date
         THEN <<Head(sorted)>> \o insertByDate(g, Tail(sorted))
         ELSE <<g>> \o sorted

\* games.sort by date, most recent first (stable)
RECURSIVE sortGames(_, _)
sortGames(gs, sorted) ==
    IF gs = <<>> THEN sorted
    ELSE sortGames(Tail(gs), insertByDate(Head(gs), sorted))

----------------------------------------------------------------------------
(* fetchAllTeams applied to the team lists of the conferences *)

\* the ids of the conferences of the list, in the order of the list
ConferenceIdAt(k) == <<"c1", "c2", "c3", "c4">>[k]

\* the teams one conference query can return: up to two of TeamIds, a team
\* listed twice included
ConferenceTeamIdLists == SeqsUpTo(TeamIds, 2)

TeamsOfConference(k, ids) == [i \in 1..Len(ids) |-> Team(ids[i], ConferenceIdAt(k))]

TeamsInit ==
    /\ RunIdle
    /\ CalcIdle
    /\ GameIdle
    /\ StandingsIdle
    /\ \E ls \in SeqsUpTo(ConferenceTeamIdLists, MaxConferences) :
           teamLists = [k \in 1..Len(ls) |-> TeamsOfConference(k, ls[k])]
    /\ rosterOut = <<>>
    /\ rosterDone = FALSE

FetchAllTeams ==
    /\ ~rosterDone
    /\ rosterOut' = fetchAllTeams(<<>>, teamLists)
    /\ rosterDone' = TRUE
    /\ UNCHANGED teamLists
    /\ UNCHANGED <<calcVars, gameVars, standingsVars, runVars>>

TeamsNext == FetchAllTeams

SpecTeams == TeamsInit /\ [][TeamsNext]_vars

----------------------------------------------------------------------------
(* The command line: parseArgs *)

SeasonFlag == <<"-", "-", "s", "e", "a", "s", "o", "n">>

\* "Default to current season"
DefaultSeason == <<"2", "0", "2", "5", "-", "2", "6">>

\* the loop of parseArgs over the arguments: '--season' followed by a
\* non-empty argument sets the season and skips that argument
RECURSIVE seasonOf(_, _)
seasonOf(args, current) ==
    IF args = <<>> THEN current
    ELSE IF Head(args) = SeasonFlag /\ Len(args) >= 2 /\ args[2] # <<>>
         THEN seasonOf(Tail(Tail(args)), args[2])
         ELSE seasonOf(Tail(args), current)

\* the test that accepts any season with a '-' in the fifth place
seasonFormatDashOnly(s) ==
    Len(s) >= 5 /\ s[5] = "-"

\* /^\d{4}-\d{2}$/.test(season)
seasonFormatOk(s) ==
    /\ Len(s) = 7
    /\ \A i \in {1, 2, 3, 4, 6, 7} : s[i] \in Digits
    /\ s[5] = "-"

\* the command lines drawn: no argument, the flag alone or with an empty
\* value, a well-formed season, malformed ones, and the flag given twice
ArgvDraws ==
    {<<>>,
     <<SeasonFlag>>,
     <<SeasonFlag, <<>> >>,
     <<SeasonFlag, <<"2", "0", "2", "3", "-", "2", "4">> >>,
     <<SeasonFlag, <<"2", "3", "2", "4">> >>,
     <<SeasonFlag, <<"2", "0", "x", "3", "-", "2", "4">> >>,
     <<SeasonFlag, <<"2", "0", "2", "3", "-", "2", "4", "5">> >>,
     <<SeasonFlag, <<"2", "0", "2", "3", "-", "2", "4">>, SeasonFlag, <<"2", "0", "2", "4">> >>,
     <<SeasonFlag, SeasonFlag, <<"2", "0", "2", "3", "-", "2", "4">> >>}

----------------------------------------------------------------------------
(* One invocation, from parseArgs to the last write *)

RunInit ==
    /\ CalcIdle
    /\ GameIdle
    /\ StandingsIdle
    /\ RosterIdle
    /\ argv \in ArgvDraws
    /\ season = <<>>
    /\ pc = "parseArgs"
    /\ gender = "mens"
    /\ dirsMade = FALSE
    /\ confResponse = "none"
    /\ conferences = <<>>
    /\ ci = 1
    /\ entries = <<>>
    /\ ei = 1
    /\ confTeams = <<>>
    /\ allTeams = <<>>
    /\ ti = 1
    /\ gameIds = <<>>
    /\ gi = 1
    /\ attempt = 0
    /\ games = <<>>
    /\ standings = <<>>
    /\ files = [g \in Genders |-> OldFiles]
    /\ lastRequest = "none"
    /\ waited = <<>>

idleVars == <<calcVars, standingsVars, rosterVars, gameDone>>

paceVars == <<lastRequest, waited>>

\* the same wait after every failed attempt
backoffFixed(k) == 1000

\* fetchWithRetry's wait after the failed attempt of index k: 1s, 2s, 4s
backoff(k) == (2 ^ k) * 1000

\* parseArgs: a season that is not YYYY-YY exits with status 1
ParseArgs ==
    /\ pc = "parseArgs"
    /\ season' = seasonOf(argv, DefaultSeason)
    /\ pc' = IF seasonFormatOk(season') THEN "mkdir" ELSE "exit1"
    /\ UNCHANGED <<argv, gender, dirsMade, confResponse, conferences, ci, entries, ei, confTeams,
                   allTeams, ti, gameIds, gi, attempt, games, standings, files>>
    /\ UNCHANGED <<idleVars, paceVars, response, teamLookup, game>>

\* main: the two mkdirSync calls, then fetchGenderData('mens')
MakeDirs ==
    /\ pc = "mkdir"
    /\ dirsMade' = TRUE
    /\ pc' = "conferences"
    /\ UNCHANGED <<gender, confResponse, conferences, ci, entries, ei, confTeams,
                   allTeams, ti, gameIds, gi, attempt, games, standings, files>>
    /\ UNCHANGED <<idleVars, paceVars, argv, season, response, teamLookup, game>>

\* where fetchGenderData goes once fetchAllTeams has returned the roster
AfterRoster(roster) == IF roster = <<>> THEN "aggregate" ELSE "schedule"

\* fetchAllConferences: a transport error propagates out of main; a non-OK
\* response gives an empty conference list
FetchAllConferences ==
    /\ pc = "conferences"
    /\ \E kind \in {"throw", "notok", "ok"} :
           /\ confResponse' = kind
           /\ IF kind = "throw"
              THEN /\ pc' = "fatal"
                   /\ UNCHANGED <<conferences, teamLookup>>
              ELSE /\ conferences' = IF kind = "ok"
                                     THEN filterConferences(ConferenceListOf(gender))
                                     ELSE <<>>
                   /\ IF conferences' = <<>>
                      THEN /\ pc' = AfterRoster(allTeams)
                           /\ teamLookup' = teamLookupOf(allTeams)
                      ELSE /\ pc' = "confStandings"
                           /\ UNCHANGED teamLookup
    /\ lastRequest' = "conferences"
    /\ waited' = <<>>
    /\ UNCHANGED <<gender, dirsMade, ci, entries, ei, confTeams,
                   allTeams, ti, gameIds, gi, attempt, games, standings, files>>
    /\ UNCHANGED <<idleVars, argv, season, response, game>>

\* the end of one iteration of fetchAllTeams' loop: the conference's teams are
\* merged, and after the last conference the roster and its lookup are complete
ConferenceDone(found, waits) ==
    /\ allTeams' = mergeTeams(allTeams, found)
    /\ ci' = ci + 1
    /\ entries' = <<>>
    /\ ei' = 1
    /\ confTeams' = <<>>
    /\ waited' = Append(waits, 100)
    /\ IF ci + 1 > Len(conferences)
       THEN /\ pc' = AfterRoster(allTeams')
            /\ teamLookup' = teamLookupOf(allTeams')
       ELSE /\ pc' = "confStandings"
            /\ UNCHANGED teamLookup

\* fetchConferenceTeams, the standings request: a transport error propagates
\* out of main; a non-OK response gives no team for this conference
FetchConferenceStandings ==
    /\ pc = "confStandings"
    /\ \E kind \in {"throw", "notok", "ok"} :
           LET es == IF kind = "ok"
                     THEN entriesWithTeam(EntriesOf(gender, conferences[ci]))
                     ELSE <<>>
           IN  IF kind = "throw"
               THEN /\ pc' = "fatal"
                    /\ waited' = <<>>
                    /\ UNCHANGED <<allTeams, ci, entries, ei, confTeams, teamLookup>>
               ELSE IF es = <<>>
               THEN ConferenceDone(<<>>, <<>>)
               ELSE /\ entries' = es
                    /\ ei' = 1
                    /\ confTeams' = <<>>
                    /\ pc' = "teamDetail"
                    /\ waited' = <<>>
                    /\ UNCHANGED <<allTeams, ci, teamLookup>>
    /\ lastRequest' = "standings"
    /\ UNCHANGED <<gender, dirsMade, confResponse, conferences,
                   ti, gameIds, gi, attempt, games, standings, files>>
    /\ UNCHANGED <<idleVars, argv, season, response, game>>

\* fetchConferenceTeams, the detail request of one entry: a transport error
\* propagates out of main; OK or not, the team is pushed (the response only
\* decides logo and colours)
FetchTeamDetail ==
    /\ pc = "teamDetail"
    /\ \E kind \in {"throw", "notok", "ok"} :
           IF kind = "throw"
           THEN /\ pc' = "fatal"
                /\ waited' = <<>>
                /\ UNCHANGED <<allTeams, ci, entries, ei, confTeams, teamLookup>>
           ELSE LET found == Append(confTeams, Team(entries[ei].id, conferences[ci]))
                IN  IF ei + 1 > Len(entries)
                    THEN ConferenceDone(found, <<30>>)
                    ELSE /\ confTeams' = found
                         /\ ei' = ei + 1
                         /\ waited' = <<30>>
                         /\ UNCHANGED <<pc, allTeams, ci, entries, teamLookup>>
    /\ lastRequest' = "detail"
    /\ UNCHANGED <<gender, dirsMade, confResponse, conferences,
                   ti, gameIds, gi, attempt, games, standings, files>>
    /\ UNCHANGED <<idleVars, argv, season, response, game>>

\* one iteration of the schedule loop: fetchTeamSchedule and the adds; a
\* transport error propagates out of main; a non-OK response gives no event
FetchTeamSchedule ==
    /\ pc = "schedule"
    /\ \E kind \in {"throw", "notok", "ok"} :
           IF kind = "throw"
           THEN /\ pc' = "fatal"
                /\ waited' = <<>>
                /\ UNCHANGED <<ti, gameIds>>
           ELSE /\ gameIds' = addCompleted(gameIds,
                                  IF kind = "ok" THEN ScheduleOf(gender, allTeams[ti].id)
                                  ELSE <<>>)
                /\ ti' = ti + 1
                /\ waited' = <<50>>
                /\ pc' = IF ti + 1 <= Len(allTeams) THEN "schedule"
                         ELSE IF gameIds' = <<>> THEN "aggregate" ELSE "gameFetch"
    /\ lastRequest' = "schedule"
    /\ UNCHANGED <<gender, dirsMade, confResponse, conferences, ci, entries, ei, confTeams,
                   allTeams, gi, attempt, games, standings, files>>
    /\ UNCHANGED <<idleVars, argv, season, response, teamLookup, game>>

\* fetchWithRetry: an attempt that is not the last fails; the error is logged
\* and the next attempt follows the backoff
FetchAttemptFails ==
    /\ pc = "gameFetch"
    /\ attempt < MaxRetries - 1
    /\ attempt' = attempt + 1
    /\ lastRequest' = "summary"
    /\ waited' = <<backoff(attempt)>>
    /\ UNCHANGED <<pc, gender, dirsMade, confResponse, conferences, ci, entries, ei,
                   confTeams, allTeams, ti, gameIds, gi, games, standings, files>>
    /\ UNCHANGED <<idleVars, argv, season, response, teamLookup, game>>

\* one iteration of the game loop: fetchWithRetry returns a response, or its
\* last attempt fails and it throws; fetchGameDetails returns a Game or null
FetchGameSummary ==
    /\ pc = "gameFetch"
    /\ \E resp \in SummaryResponsesOf(gender, gameIds[gi])
                   \cup (IF attempt = MaxRetries - 1 THEN {ThrowResponse} ELSE {}) :
           /\ response' = resp
           /\ game' = fetchGameDetails(gameIds[gi], resp, teamLookup)
           /\ games' = pushGame(games, game')
    /\ attempt' = 0
    /\ lastRequest' = "summary"
    /\ waited' = <<50>>
    /\ gi' = gi + 1
    /\ pc' = IF gi + 1 <= Len(gameIds) THEN "gameFetch" ELSE "aggregate"
    /\ UNCHANGED <<gender, dirsMade, confResponse, conferences, ci, entries, ei, confTeams,
                   allTeams, ti, gameIds, standings, files>>
    /\ UNCHANGED <<idleVars, argv, season, teamLookup>>

\* the end of fetchGenderData: the games are sorted and the standings calculated
Aggregate ==
    /\ pc = "aggregate"
    /\ games' = sortGames(games, <<>>)
    /\ standings' = calculateStandings(allTeams, games')
    /\ pc' = "writeTeams"
    /\ UNCHANGED <<gender, dirsMade, confResponse, conferences, ci, entries, ei, confTeams,
                   allTeams, ti, gameIds, gi, attempt, files>>
    /\ UNCHANGED <<idleVars, paceVars, argv, season, response, teamLookup, game>>

WriteTeams ==
    /\ pc = "writeTeams"
    /\ files' = [files EXCEPT ![gender].teams = WrittenFile(allTeams)]
    /\ pc' = "writeGames"
    /\ UNCHANGED <<gender, dirsMade, confResponse, conferences, ci, entries, ei, confTeams,
                   allTeams, ti, gameIds, gi, attempt, games, standings>>
    /\ UNCHANGED <<idleVars, paceVars, argv, season, response, teamLookup, game>>

WriteGames ==
    /\ pc = "writeGames"
    /\ files' = [files EXCEPT ![gender].games = WrittenFile(games)]
    /\ pc' = "writeStandings"
    /\ UNCHANGED <<gender, dirsMade, confResponse, conferences, ci, entries, ei, confTeams,
                   allTeams, ti, gameIds, gi, attempt, games, standings>>
    /\ UNCHANGED <<idleVars, paceVars, argv, season, response, teamLookup, game>>

\* the third write; after the men's files fetchGenderData('womens') starts
WriteStandings ==
    /\ pc = "writeStandings"
    /\ files' = [files EXCEPT ![gender].standings = WrittenFile(standings)]
    /\ IF gender = "mens"
       THEN /\ gender' = "womens"
            /\ pc' = "conferences"
            /\ confResponse' = "none"
            /\ conferences' = <<>>
            /\ ci' = 1
            /\ entries' = <<>>
            /\ ei' = 1
            /\ confTeams' = <<>>
            /\ allTeams' = <<>>
            /\ ti' = 1
            /\ gameIds' = <<>>
            /\ gi' = 1
            /\ attempt' = 0
            /\ games' = <<>>
            /\ standings' = <<>>
       ELSE /\ pc' = "done"
            /\ UNCHANGED <<gender, confResponse, conferences, ci, entries, ei, confTeams,
                           allTeams, ti, gameIds, gi, attempt, games, standings>>
    /\ UNCHANGED dirsMade
    /\ UNCHANGED <<idleVars, paceVars, argv, season, response, teamLookup, game>>

RunNext ==
    \/ ParseArgs
    \/ MakeDirs
    \/ FetchAllConferences
    \/ FetchConferenceStandings
    \/ FetchTeamDetail
    \/ FetchTeamSchedule
    \/ FetchAttemptFails
    \/ FetchGameSummary
    \/ Aggregate
    \/ WriteTeams
    \/ WriteGames
    \/ WriteStandings

SpecRun == RunInit /\ [][RunNext]_vars

\* every awaited request, delay and write settles, so the run takes its next
\* step whenever it has one
SpecRunFair == RunInit /\ [][RunNext]_vars /\ WF_vars(RunNext)

----------------------------------------------------------------------------
(* C1 *)

\* r is the finite number n / d
IsQuotient(r, n, d) == IsFinite(r) /\ r.num * d = n * r.den

\* C1: for every BoxScoreStats of non-negative counts and every non-negative
\* opponentDreb, calculateFourFactors returns the closed forms
\* efg = (fgm + 0.5 fg3m) / fga * 100, tov = turnovers / (fga + 0.44 fta +
\* turnovers) * 100, orb = oreb / (oreb + opponentDreb) * 100 and
\* ftr = ftm / fga * 100, each 0 when its denominator is 0, and no result is
\* NaN or infinite.
C1_ClosedForms ==
    calcDone =>
        LET poss100 == 100 * stats.fga + 44 * stats.fta + 100 * stats.turnovers
            orbTotal == stats.oreb + opponentDreb
        IN  /\ \A k \in {"efg", "tov", "orb", "ftr"} : IsFinite(factors[k])
            /\ IF stats.fga = 0 THEN factors.efg = Zero
               ELSE IsQuotient(factors.efg, 100 * stats.fgm + 50 * stats.fg3m, stats.fga)
            /\ IF poss100 = 0 THEN factors.tov = Zero
               ELSE IsQuotient(factors.tov, 10000 * stats.turnovers, poss100)
            /\ IF orbTotal = 0 THEN factors.orb = Zero
               ELSE IsQuotient(factors.orb, 100 * stats.oreb, orbTotal)
            /\ IF stats.fga = 0 THEN factors.ftr = Zero
               ELSE IsQuotient(factors.ftr, 100 * stats.ftm, stats.fga)

\* a zero-denominator input (fga = 0 with makes recorded) and a regular one
\* have both been calculated
C1_Witness ==
    /\ calcDone
    /\ stats.fga = 0 /\ stats.ftm > 0 /\ stats.oreb + opponentDreb = 0
    /\ stats.turnovers > 0 /\ factors.tov # Zero

----------------------------------------------------------------------------
(* C2 *)

\* the statistics list of the first team of the summary being parsed
FirstStatistics == response.data.teams[1].statistics

ParsedOreb == parseSingle(statsMap(FirstStatistics), OrebKeys)
ParsedDreb == parseSingle(statsMap(FirstStatistics), DrebKeys)
ParsedTotalReb == parseSingle(statsMap(FirstStatistics), TotalRebKeys)

\* n is the integer nearest to 0.28 * total
IsRoundedShare(n, total) == 100 * n - 28 * total < 50 /\ 28 * total - 100 * n <= 50

\* C2: the rebound-split estimate is applied iff the parsed offensive and
\* defensive rebounds are both 0 and the parsed total is greater than 0; then
\* oreb = round(0.28 * total) and dreb = total - oreb (40 gives 11 and 29); in
\* every other case, a parsed split of (0, N) with N > 0 included, the parsed
\* oreb and dreb are kept.
C2_ReboundSplit ==
    (gameDone /\ game # Null) =>
        LET box == game.homeTeam.box
            applies == ParsedOreb = 0 /\ ParsedDreb = 0 /\ ParsedTotalReb > 0
        IN  /\ applies => /\ IsRoundedShare(box.oreb, ParsedTotalReb)
                          /\ box.dreb = ParsedTotalReb - box.oreb
                          /\ ParsedTotalReb = 40 => box.oreb = 11 /\ box.dreb = 29
            /\ ~applies => box.oreb = ParsedOreb /\ box.dreb = ParsedDreb

\* a total of 40 without a split has been parsed and estimated as 11 and 29
C2_Witness ==
    /\ gameDone /\ game # Null
    /\ ParsedTotalReb = 40 /\ ParsedOreb = 0 /\ ParsedDreb = 0
    /\ game.homeTeam.box.oreb = 11 /\ game.homeTeam.box.dreb = 29

----------------------------------------------------------------------------
(* C3 *)

KnownConference(id) ==
    id \in DOMAIN teamLookup /\ teamLookup[id].conferenceId # NoConferenceId

\* C3: for every Game emitted by fetchGameDetails, isConferenceGame is true
\* iff both participants have a known (non-null, defined) conferenceId and the
\* two are equal.
C3_ConferenceGameIffKnownAndEqual ==
    (gameDone /\ game # Null) =>
        (game.isConferenceGame <=>
            /\ KnownConference(game.homeTeam.teamId)
            /\ KnownConference(game.awayTeam.teamId)
            /\ teamLookup[game.homeTeam.teamId].conferenceId
                   = teamLookup[game.awayTeam.teamId].conferenceId)

----------------------------------------------------------------------------
(* C4 *)

StandingsRowSet == {standingsOut[i] : i \in 1..Len(standingsOut)}

\* C4: for every TeamStandings row calculateStandings produces,
\* wins + losses = gamesPlayed; a row with gamesPlayed = 0 has wins = losses = 0.
C4_WinsPlusLosses ==
    standingsDone =>
        \A row \in StandingsRowSet :
            /\ row.wins + row.losses = row.gamesPlayed
            /\ row.gamesPlayed = 0 => row.wins = 0 /\ row.losses = 0

CompletedGamesOf(id) ==
    {i \in 1..Len(gamesArg) :
        /\ gamesArg[i].isComplete
        /\ id \in {gamesArg[i].homeTeam.teamId, gamesArg[i].awayTeam.teamId}}

TiedGame(g) == g.isComplete /\ g.homeTeam.score = g.awayTeam.score

\* a roster team has played two games, one of them a tie, and has its row
C4_Witness ==
    /\ standingsDone
    /\ \E row \in StandingsRowSet :
           /\ row.gamesPlayed = 2
           /\ \E i \in CompletedGamesOf(row.teamId) : TiedGame(gamesArg[i])

----------------------------------------------------------------------------
(* C5 *)

\* the content of a file the run has written for gender g
Written(g, file) == files[g][file].content

ContentSet(content) == {content[i] : i \in 1..Len(content)}

\* the game ids a team's schedule lists as completed
CompletedIdsOf(g, teamId) ==
    {ScheduleOf(g, teamId)[i].gameId :
        i \in {j \in 1..Len(ScheduleOf(g, teamId)) : ScheduleOf(g, teamId)[j].isComplete}}

----------------------------------------------------------------------------
(* C6 *)

\* C6: calculateStandings emits exactly one row per team of the roster: a team
\* with no completed game keeps its all-zero row, no row exists for a team
\* outside the roster, and the set of standings teamIds equals the set of team
\* ids.
C6_OneRowPerRosterTeam ==
    standingsDone =>
        /\ Len(standingsOut) = Len(rosterArg)
        /\ {row.teamId : row \in StandingsRowSet} = RosterIds(rosterArg)
        /\ \A i, j \in 1..Len(standingsOut) :
               standingsOut[i].teamId = standingsOut[j].teamId => i = j
        /\ \A row \in StandingsRowSet :
               CompletedGamesOf(row.teamId) = {} => row = ZeroStanding(row.teamId)

\* the standings of a roster holding a team without a completed game, from a
\* list with a completed game against a team outside the roster
C6_Witness ==
    /\ standingsDone
    /\ \E id \in RosterIds(rosterArg) : CompletedGamesOf(id) = {}
    /\ \E i \in 1..Len(gamesArg) :
           /\ gamesArg[i].isComplete
           /\ gamesArg[i].awayTeam.teamId \notin RosterIds(rosterArg)
           /\ gamesArg[i].homeTeam.teamId \in RosterIds(rosterArg)

----------------------------------------------------------------------------
(* C7 *)

\* C7: the list returned by calculateStandings is ordered by descending wins,
\* ties on wins broken by descending confWins.
C7_SortedByWinsThenConfWins ==
    standingsDone =>
        \A i, j \in 1..Len(standingsOut) :
            i < j =>
                \/ standingsOut[i].wins > standingsOut[j].wins
                \/ /\ standingsOut[i].wins = standingsOut[j].wins
                   /\ standingsOut[i].confWins >= standingsOut[j].confWins

RosterIndex(id) == CHOOSE i \in 1..Len(rosterArg) : rosterArg[i].id = id

\* two rows tie on wins and differ in conference wins, and the sort has put the
\* one with more conference wins first although its team came later in the roster
C7_Witness ==
    /\ standingsDone
    /\ \E i, j \in 1..Len(standingsOut) :
           /\ i < j
           /\ standingsOut[i].wins = standingsOut[j].wins
           /\ standingsOut[i].confWins > standingsOut[j].confWins
           /\ RosterIndex(standingsOut[i].teamId) > RosterIndex(standingsOut[j].teamId)

----------------------------------------------------------------------------
(* C8 *)

NothingWritten(g) ==
    /\ ~files[g].teams.written
    /\ ~files[g].games.written
    /\ ~files[g].standings.written

\* C8: when the top-level conference request of a (gender, season) fails, by a
\* transport error or by a non-OK response, none of the teams, games and
\* standings files of that gender is written.
C8_NoRosterNothingWritten ==
    confResponse \in {"throw", "notok"} => NothingWritten(gender)

----------------------------------------------------------------------------
(* C9 *)

\* C9: a schedule request that fails, by a transport error or by a non-OK
\* response, does not abort the run: the step that follows a schedule request
\* is the next team's schedule, the game loop or the aggregation.
C9_ScheduleFailureNotFatal ==
    [][pc = "schedule" => pc' \in {"schedule", "gameFetch", "aggregate"}]_vars

----------------------------------------------------------------------------
(* C10 *)

\* the step of the game loop that ends with a summary yielding no usable game
DropsGame ==
    /\ pc = "gameFetch"
    /\ gi' = gi + 1
    /\ Droppable(response')

\* the completed games of the collection in which a team took part
GamesPlayedIn(gs, teamId) ==
    {i \in 1..Len(gs) :
        gs[i].isComplete /\ teamId \in {gs[i].homeTeam.teamId, gs[i].awayTeam.teamId}}

\* C10: a game whose summary cannot be fetched after the retries, or whose
\* payload lacks a box score, has fewer than two box-score teams or lacks a
\* competition block, yields no Game: the games collection is left as it was,
\* the run goes on with the next game identifier (or with the aggregation after
\* the last one) and is not aborted, and every standings row counts exactly the
\* completed games of the games collection.
C10_DroppedGameYieldsNothing ==
    /\ [][DropsGame =>
            /\ game' = Null
            /\ games' = games
            /\ pc' = IF gi' <= Len(gameIds) THEN "gameFetch" ELSE "aggregate"]_vars
    /\ [](pc \in {"writeTeams", "writeGames", "writeStandings"} =>
            /\ \A i \in 1..Len(games) : \E j \in 1..Len(gameIds) : games[i].id = gameIds[j]
            /\ \A i \in 1..Len(standings) :
                   standings[i].gamesPlayed
                       = Cardinality(GamesPlayedIn(games, standings[i].teamId)))

\* of two game identifiers the first was dropped and the second emitted, and
\* the standings count the second only
C10_Witness ==
    /\ pc = "writeStandings"
    /\ gender = "mens"
    /\ gameIds = <<"g1", "g2">>
    /\ Droppable(response) = FALSE
    /\ Len(games) = 1
    /\ games[1].id = "g2"
    /\ \E i \in 1..Len(standings) :
           standings[i].teamId = "t1" /\ standings[i].gamesPlayed = 1

----------------------------------------------------------------------------
(* C11 *)

\* some entry of the statistics list has one of the keys as its label or its
\* name, whatever the case of the letters
PresentUnder(statistics, keys) ==
    \E i \in 1..Len(statistics) : \E j \in 1..Len(keys) :
        \/ toLowerCase(statistics[i].label) = keys[j]
        \/ toLowerCase(statistics[i].name) = keys[j]

\* every made/attempted pair and the turnovers are 0 when none of their keys
\* is present
AbsentCountsAreZero(statistics, box) ==
    /\ ~PresentUnder(statistics, FgKeys) => box.fgm = 0 /\ box.fga = 0
    /\ ~PresentUnder(statistics, Fg3Keys) => box.fg3m = 0 /\ box.fg3a = 0
    /\ ~PresentUnder(statistics, FtKeys) => box.ftm = 0 /\ box.fta = 0
    /\ ~PresentUnder(statistics, TurnoverKeys) => box.turnovers = 0

\* C11 as stated: a payload with a box score of two teams and a competition
\* block always gives a Game, whatever subset of the statistics is missing, and
\* every statistic present under none of its keys is 0 in it.
C11_AbsentStatisticsNeverDrop ==
    gameDone =>
        /\ game # Null
        /\ AbsentCountsAreZero(FirstStatistics, game.homeTeam.box)
        /\ ~PresentUnder(FirstStatistics, OrebKeys) => game.homeTeam.box.oreb = 0
        /\ ~PresentUnder(FirstStatistics, DrebKeys) => game.homeTeam.box.dreb = 0

\* C11 as the code has it: the Game is returned iff the team's statistics list
\* is not empty; in it the made/attempted pairs and the turnovers present under
\* none of their keys are 0, and so are the offensive and the defensive
\* rebounds unless both are 0 and a positive total is present, in which case
\* they are the estimated split of the total.
C11_AbsentStatisticsDefaultToZero ==
    gameDone =>
        /\ game = Null <=> FirstStatistics = <<>>
        /\ game # Null =>
            /\ AbsentCountsAreZero(FirstStatistics, game.homeTeam.box)
            /\ \/ ParsedOreb = 0 /\ ParsedDreb = 0 /\ ParsedTotalReb > 0
               \/ /\ ~PresentUnder(FirstStatistics, OrebKeys) => game.homeTeam.box.oreb = 0
                  /\ ~PresentUnder(FirstStatistics, DrebKeys) => game.homeTeam.box.dreb = 0

\* a team with its turnovers and defensive rebounds only: the Game is returned
\* with the field goals, three-pointers, free throws and offensive rebounds 0
C11_Witness ==
    /\ gameDone /\ game # Null
    /\ PresentUnder(FirstStatistics, TurnoverKeys)
    /\ PresentUnder(FirstStatistics, DrebKeys)
    /\ ~PresentUnder(FirstStatistics, FgKeys)
    /\ ~PresentUnder(FirstStatistics, OrebKeys)
    /\ game.homeTeam.box.turnovers = 13
    /\ game.homeTeam.box.dreb = 9
    /\ game.homeTeam.box.fga = 0
    /\ game.homeTeam.box.oreb = 0

----------------------------------------------------------------------------
(* C12 *)

\* C12: every outbound request goes through the bounded retry, and a request
\* that is still failing after the last attempt is treated as unavailable by
\* the component that made it: no transport failure aborts the run.
C12_NoTransportFailureAbortsRun ==
    pc # "fatal"

----------------------------------------------------------------------------
(* C13 *)

AllWritten(g) ==
    /\ files[g].teams.written
    /\ files[g].games.written
    /\ files[g].standings.written

\* C13: in every reachable state the teams, games and standings files of a
\* (gender, season) partition are all from the previous run or all from the
\* current run.
C13_FilesAllOldOrAllNew ==
    \A g \in Genders : AllWritten(g) \/ NothingWritten(g)

----------------------------------------------------------------------------
(* C14 *)

\* the conferences, by position in the list, whose query returned the team
ConferencesListing(id) ==
    {k \in 1..Len(teamLists) : \E i \in 1..Len(teamLists[k]) : teamLists[k][i].id = id}

FirstConferenceListing(id) ==
    CHOOSE k \in ConferencesListing(id) : \A l \in ConferencesListing(id) : k <= l

\* C14: the roster returned by fetchAllTeams holds no two teams of the same
\* id; it holds every team some conference query returned, once, as returned
\* by the first conference of the list that contained it.
C14_RosterDeduplicated ==
    rosterDone =>
        /\ \A i, j \in 1..Len(rosterOut) : rosterOut[i].id = rosterOut[j].id => i = j
        /\ RosterIds(rosterOut) = {id \in TeamIds : ConferencesListing(id) # {}}
        /\ \A i \in 1..Len(rosterOut) :
               rosterOut[i]
                   = Team(rosterOut[i].id, ConferenceIdAt(FirstConferenceListing(rosterOut[i].id)))

\* a team returned by the first and by the second conference is in the roster
\* as the first returned it
C14_Witness ==
    /\ rosterDone
    /\ \E id \in TeamIds :
           /\ ConferencesListing(id) = {1, 2}
           /\ \E i \in 1..Len(rosterOut) : rosterOut[i] = Team(id, "c1")

----------------------------------------------------------------------------
(* C15 *)

\* C15: the game identifiers are collected from all the schedules, each once
\* and only when some schedule of a roster team marks it completed, before any
\* game summary is requested; the summaries are then requested identifier by
\* identifier, one request (retries aside) for each, and the games collection
\* holds at most one Game for an identifier.
C15_GameIdsDeduplicated ==
    /\ [](/\ \A i, j \in 1..Len(gameIds) : gameIds[i] = gameIds[j] => i = j
          /\ \A i \in 1..Len(gameIds) :
                 \E t \in RosterIds(allTeams) : gameIds[i] \in CompletedIdsOf(gender, t)
          /\ \A i, j \in 1..Len(games) : games[i].id = games[j].id => i = j
          /\ \A i \in 1..Len(games) : \E k \in 1..(gi - 1) : games[i].id = gameIds[k]
          /\ pc = "schedule" => gi = 1 /\ games = <<>>)
    /\ [][/\ gi' # gi =>
               \/ pc = "gameFetch" /\ gi' = gi + 1 /\ gameIds' = gameIds
               \/ pc = "writeStandings" /\ gi' = 1
          /\ gameIds' # gameIds => pc \in {"schedule", "writeStandings"}]_vars

\* the schedules of t1 and of t2 have both been read: g1, which both list, is
\* in the set once, and the first summary is about to be requested
C15_Witness ==
    /\ pc = "gameFetch"
    /\ gender = "mens"
    /\ gameIds = <<"g1", "g2", "g4">>
    /\ gi = 1

----------------------------------------------------------------------------
(* C16 *)

\* main is at a request of fetchConferenceTeams
InConferenceTeams == pc \in {"confStandings", "teamDetail"}

\* where main is while discovery goes on, and just after it
DiscoverySteps == {"confStandings", "teamDetail", "schedule", "aggregate"}

\* C16: a failure to resolve one conference's team list, by a transport error
\* or by a non-OK response, does not abort discovery: the step that follows a
\* request of fetchConferenceTeams is another of its requests, the next
\* conference, or the end of discovery with the roster of the other conferences.
C16_ConferenceFailureNotFatal ==
    [][InConferenceTeams => pc' \in DiscoverySteps]_vars

----------------------------------------------------------------------------
(* C17 *)

\* val is a run of digits, a '-', and a run of digits
ValidPair(val) ==
    \E k \in 2..(Len(val) - 1) :
        /\ val[k] = "-"
        /\ \A i \in 1..Len(val) : i # k => val[i] \in Digits

DashAt(val) == CHOOSE k \in 1..Len(val) : val[k] = "-"

PairOf(val) ==
    [made |-> DigitsValue(SubSeq(val, 1, DashAt(val) - 1), 0),
     attempted |-> DigitsValue(SubSeq(val, DashAt(val) + 1, Len(val)), 0)]

\* the pair of the first candidate key, in the order of the list, whose value
\* is a valid pair; (0, 0) when there is none
RECURSIVE FirstValidPair(_, _)
FirstValidPair(statistics, keys) ==
    IF keys = <<>> THEN [made |-> 0, attempted |-> 0]
    ELSE IF ValidPair(MapGet(statsMap(statistics), Head(keys)))
         THEN PairOf(MapGet(statsMap(statistics), Head(keys)))
         ELSE FirstValidPair(statistics, Tail(keys))

\* C17: made and attempted of the field goals come from the first candidate
\* key, in the order short label, machine name, free-text label, whose value is
\* a valid "M-A" pair of integers; a candidate whose value is present but is
\* not a valid pair does not stop the search, and both counts are 0 when no
\* candidate is valid.
C17_FirstValidPairWins ==
    (gameDone /\ game # Null) =>
        /\ game.homeTeam.box.fgm = FirstValidPair(FirstStatistics, FgKeys).made
        /\ game.homeTeam.box.fga = FirstValidPair(FirstStatistics, FgKeys).attempted

----------------------------------------------------------------------------
(* C18 *)

\* the two box-score entries of the summary
BoxEntry(i) == response.data.teams[i]

TaggedHome(i) == BoxEntry(i).homeAway = "home"

\* the Game of the same summary with its two box-score entries swapped
SwappedGame ==
    fetchGameDetails("g1", [response EXCEPT !.data.teams = <<@[2], @[1]>>], teamLookup)

----------------------------------------------------------------------------
(* C19 *)

\* the participants of the competition whose identity is the team's id
ParticipantsOf(teamId) ==
    {i \in 1..Len(response.data.competition.competitors) :
        \/ response.data.competition.competitors[i].id = teamId
        \/ response.data.competition.competitors[i].teamId = teamId}

\* the score string of a participant as a number, 0 when there is none
ScoreOfParticipant(i) ==
    IF response.data.competition.competitors[i].score = <<>> THEN Zero
    ELSE Rat(DigitsValue(response.data.competition.competitors[i].score, 0))

ScoreByIdentity(side) ==
    /\ ParticipantsOf(side.teamId) = {} => side.score = Zero
    /\ \A i \in ParticipantsOf(side.teamId) : side.score = ScoreOfParticipant(i)

RECURSIVE Reverse(_)
Reverse(q) == IF q = <<>> THEN <<>> ELSE Append(Reverse(Tail(q)), Head(q))

\* the Game of the same summary with the participant list in reverse order
ReversedGame ==
    fetchGameDetails("g1",
                     [response EXCEPT !.data.competition.competitors = Reverse(@)],
                     teamLookup)

----------------------------------------------------------------------------
(* C20 *)

\* s is four digits, a '-' and two digits
IsYYYYdashYY(s) ==
    /\ Len(s) = 7
    /\ s[5] = "-"
    /\ \A i \in (1..7) \ {5} : s[i] \in {"0", "1", "2", "3", "4", "5", "6", "7", "8", "9"}

\* the command line holds no '--season' at all
NoSeasonArgument == \A i \in 1..Len(argv) : argv[i] # SeasonFlag

----------------------------------------------------------------------------
(* C21 *)

FactorNames == {"efg", "tov", "orb", "ftr"}

\* the row field holding the mean of the opponents' factor
OppFieldOf(f) ==
    CASE f = "efg" -> "oppEfg" [] f = "tov" -> "oppTov"
      [] f = "orb" -> "oppOrb" [] f = "ftr" -> "oppFtr"

\* the side of the team, or of its opponent, in a game it took part in
SideOf(g, id, own) ==
    IF (g.homeTeam.teamId = id) = own THEN g.homeTeam ELSE g.awayTeam

\* the sum of a per-game factor over the games of the list in which the team
\* took part and which are completed
RECURSIVE FactorSum(_, _, _, _)
FactorSum(gameList, id, f, own) ==
    IF gameList = <<>> THEN Zero
    ELSE IF Head(gameList).isComplete
            /\ id \in {Head(gameList).homeTeam.teamId, Head(gameList).awayTeam.teamId}
         THEN RAdd(SideOf(Head(gameList), id, own).factors[f],
                   FactorSum(Tail(gameList), id, f, own))
         ELSE FactorSum(Tail(gameList), id, f, own)

\* mean is the mean of the team's per-game values, and so is neither under all
\* of them nor over all of them
IsMeanOfGames(mean, id, f, own) ==
    /\ RMul(mean, Rat(Cardinality(CompletedGamesOf(id)))) = FactorSum(gamesArg, id, f, own)
    /\ \E i \in CompletedGamesOf(id) : ~RGt(SideOf(gamesArg[i], id, own).factors[f], mean)
    /\ \E i \in CompletedGamesOf(id) : ~RGt(mean, SideOf(gamesArg[i], id, own).factors[f])

----------------------------------------------------------------------------
(* C22 *)

\* attempted >= made for every made/attempted pair
AttemptedCoversMade == stats.fga >= stats.fgm /\ stats.fg3a >= stats.fg3m /\ stats.fta >= stats.ftm

InPercentRange(r) == IsFinite(r) /\ ~RGt(Zero, r) /\ ~RGt(r, Hundred)

----------------------------------------------------------------------------
(* C23 *)

----------------------------------------------------------------------------
(* C24 *)

\* the positions at which the next step of the run issues an outbound request
RequestSteps == {"conferences", "confStandings", "teamDetail", "schedule", "gameFetch"}

\* C24: between the completion of one outbound request and the start of the
\* next one there is always a delay step: whenever the run is about to issue a
\* request and has issued one before, a delay has been awaited since.
C24_DelayBetweenRequests ==
    (pc \in RequestSteps /\ lastRequest # "none") => waited # <<>>

----------------------------------------------------------------------------
(* C25 *)

\* C25: in every Game fetchGameDetails returns, the four factors stored for
\* each side are calculateFourFactors of that side's own stored box-score
\* counts and the other side's dreb, whichever side came first in the payload.
C25_StoredFactorsFromOwnBoxAndOpponentDreb ==
    (gameDone /\ game # Null) =>
        /\ game.homeTeam.factors
               = calculateFourFactors(game.homeTeam.box, game.awayTeam.box.dreb)
        /\ game.awayTeam.factors
               = calculateFourFactors(game.awayTeam.box, game.homeTeam.box.dreb)

\* a Game whose home side came second in the payload, whose sides differ in
\* dreb, and whose home orb is neither the placeholder nor what the home side's
\* own dreb would give
C25_Witness ==
    /\ gameDone /\ game # Null
    /\ response.data.teams[2].homeAway = "home"
    /\ response.data.teams[1].homeAway = "away"
    /\ game.homeTeam.box.dreb # game.awayTeam.box.dreb
    /\ game.homeTeam.factors.orb # Zero
    /\ game.homeTeam.factors.orb
           # calculateFourFactors(game.homeTeam.box, game.homeTeam.box.dreb).orb

----------------------------------------------------------------------------
(* C26 *)

ConferenceGamesOf(id) == {i \in CompletedGamesOf(id) : gamesArg[i].isConferenceGame}

IsCompleteGame(g) == g.isComplete

\* C26: for every roster team gamesPlayed is the number of completed games it
\* is the home or the away side of, confWins + confLosses is the number of
\* those that are conference games, confWins <= wins and confLosses <= losses;
\* the games that are not complete change nothing: the list is the one the
\* completed games alone give.
C26_OnlyCompletedGamesFolded ==
    standingsDone =>
        /\ \A row \in StandingsRowSet :
               /\ row.gamesPlayed = Cardinality(CompletedGamesOf(row.teamId))
               /\ row.confWins + row.confLosses = Cardinality(ConferenceGamesOf(row.teamId))
               /\ row.confWins <= row.wins
               /\ row.confLosses <= row.losses
        /\ standingsOut = calculateStandings(rosterArg, SelectSeq(gamesArg, IsCompleteGame))

\* a roster team with one completed game, a conference game, and one game
\* that is not complete
C26_Witness ==
    /\ standingsDone
    /\ \E row \in StandingsRowSet :
           /\ row.gamesPlayed = 1
           /\ row.confWins + row.confLosses = 1
           /\ \E i \in 1..Len(gamesArg) :
                  /\ ~gamesArg[i].isComplete
                  /\ row.teamId \in {gamesArg[i].homeTeam.teamId, gamesArg[i].awayTeam.teamId}

----------------------------------------------------------------------------
(* C27 *)

\* a step of the game loop in which an attempt of fetchWithRetry fails and
\* another one follows
AttemptFailed == pc = "gameFetch" /\ gi' = gi /\ attempt' # attempt

\* a step of the game loop in which fetchWithRetry returns or throws
RetryEnded == pc = "gameFetch" /\ gi' = gi + 1

Stopped == pc \in {"done", "fatal", "exit1"}

C27_RetrySteps ==
    /\ AttemptFailed => /\ attempt' = attempt + 1
                        /\ attempt' < MaxRetries
                        /\ waited' = <<1000 * (2 ^ attempt)>>
    /\ RetryEnded => /\ response' = ThrowResponse => attempt = MaxRetries - 1
                     /\ waited' = <<50>>
                     /\ attempt' = 0

\* C27: fetchWithRetry makes at most maxRetries = 3 attempts; after the failed
\* attempt of index k that is not the last it waits 1000 * 2^k ms and tries
\* again; it returns the first response obtained; it throws only when the last
\* attempt has failed, with no backoff wait before that; and the run reaches
\* completion or a fatal stop.
C27_RetriesBoundedAndRunStops ==
    /\ [][C27_RetrySteps]_vars
    /\ [](attempt \in 0..(MaxRetries - 1))
    /\ <>Stopped

\* all three attempts for a game have failed, the second wait having been of
\* 2000 ms, and the game loop has gone on without the game
C27_Witness ==
    /\ response = ThrowResponse
    /\ lastRequest = "summary"
    /\ waited = <<50>>
    /\ game = Null
    /\ attempt = 0
    /\ gi > 1

----------------------------------------------------------------------------
(* C28 *)

BothInRoster(g) ==
    g.homeTeam.teamId \in RosterIds(rosterArg) /\ g.awayTeam.teamId \in RosterIds(rosterArg)

\* the rows calculateStandings gives for the games between two roster teams
RosterGameRows == calculateStandings(rosterArg, SelectSeq(gamesArg, BothInRoster))

RECURSIVE SumOfField(_, _)
SumOfField(rows, field) ==
    IF rows = <<>> THEN 0 ELSE Head(rows)[field] + SumOfField(Tail(rows), field)

\* the completed games between two roster teams in which the scores are equal
TiedRosterGames ==
    {i \in 1..Len(gamesArg) : TiedGame(gamesArg[i]) /\ BothInRoster(gamesArg[i])}

\* the completed games of team id in which its score is the greater one
GamesWonBy(id) ==
    {i \in CompletedGamesOf(id) :
        RGt(SideOf(gamesArg[i], id, TRUE).score, SideOf(gamesArg[i], id, FALSE).score)}

----------------------------------------------------------------------------
(* C29 *)

\* the men's production has stopped on a fatal failure
MensRunFailed == pc = "fatal" /\ gender = "mens"

\* a step of the women's run leaves the men's files as they are
WomensStepKeepsMensFiles == (gender = "womens") => (files'["mens"] = files["mens"])

\* C29: a fatal failure while one gender's data is produced neither prevents
\* the other gender's data from being fetched and written in the invocation
\* nor changes the other gender's files: when the men's production has failed
\* the women's files are written all the same, and no step of the women's run
\* changes a men's file.
C29_GendersIndependent ==
    /\ [](MensRunFailed => AllWritten("womens"))
    /\ [][WomensStepKeepsMensFiles]_vars

----------------------------------------------------------------------------
(* C30 *)

\* C30: on every input the library's calculateFourFactors returns the efg,
\* tov, orb and ftr that the calculateFourFactors of the ingestion script
\* returns, the inputs with a zero denominator included.
C30_LibraryAgreesWithScript ==
    \A i \in 1..Len(libFactors) : libFactors[i] = factors

\* both have been applied to an input in which every denominator is zero
C30_Witness ==
    /\ calcDone
    /\ libFactors # <<>>
    /\ stats.fga = 0 /\ stats.fta = 0 /\ stats.turnovers = 0
    /\ stats.oreb = 0 /\ opponentDreb = 0

====
